---- MODULE Spec2Model ----
(***************************************************************************)
(* A model of the umbrella sensor link: the device's IMA-ADPCM audio       *)
(* encoder and packet builder (lib-02-audio.ino), the host's frame         *)
(* demultiplexer (web/serial.js) and the host's ADPCM decoder and          *)
(* loss-tolerant reconstructor (web/audio.js).                             *)
(*                                                                         *)
(* One set of variables carries these specifications:                      *)
(*   SpecCodec    encoder and decoder run sample by sample, side by side   *)
(*   SpecEncoder  audioProcessSample / audioResetState on the device       *)
(*   SpecProducer the same, also from a long-running device                *)
(*   SpecSink     the device's tasks writing frames to Serial              *)
(*   SpecRecon    AudioProcessor.parseSamples on a stream of packets       *)
(*   SpecScenario AudioProcessor.parseSamples on planned packet lists      *)
(*   SpecInterp   AudioProcessor._interpolateGap on its arguments          *)
(*   SpecDemux    processBuffer on a chunked byte stream                   *)
(*   SpecChunks   processBuffer on chunks the device does not write        *)
(*   SpecSession  connect, disconnect and the data path in between         *)
(*   SpecThermal  the device's thermal library and the host's frame parser  *)
(*   SpecApp      the application's button state machine (web/main.js)      *)
(*   SpecButton   the same with StateMachine and ButtonStateHandler         *)
(*   SpecRestart  parseSamples on packets, with startRecording in between   *)
(*   SpecStream   parseSamples on packets numbered consecutively            *)
(*   SpecPackets  parseSamples on packets with any header bytes             *)
(*   SpecRace     audioResetState statement by statement beside the audio   *)
(*                task's audioProcessSample                                 *)
(* Each specification leaves the variables of the others at their initial  *)
(* values.                                                                 *)
(***************************************************************************)
EXTENDS Integers, Naturals, Sequences, FiniteSets, TLC

VARIABLES
  \* ---- device, lib-02-audio.ino ----
  adpcmPredicted,              \* int16_t  encoder predictor
  adpcmIndex,                  \* int8_t   encoder step index
  audioTxBuffer,               \* uint8_t[66]
  audioSampleIndex,            \* count of ADPCM bytes stored
  audioSequenceNumber,         \* uint16_t
  audioCurrentByte,            \* uint8_t  nibbles being packed
  audioHighNibble,             \* bool
  audioPacketStartPredicted,   \* int16_t
  audioPacketStartIndex,       \* int8_t
  serialTx,                    \* the frames handed to serialWriteProtected, in order
  \* ---- the device's environment ----
  signal,                      \* which input signal the microphone delivers
  nSamples,                    \* samples delivered so far
  nResets,                     \* audioResetState calls so far
  pktPre,                      \* encoder state before the first sample encoded since the last send/reset
  txPre,                       \* for each frame of serialTx: pktPre when it was sent
  sinceReset,                  \* samples given to audioProcessSample since the last audioResetState
  returned,                    \* what the last audioProcessSample call returned
  \* ---- host, web/audio.js ----
  ap,                          \* the AudioProcessor object
  lastCall,                    \* the last parseSamples call: packet, object before, return value
  history,                     \* sequence numbers of the packets delivered, in order
  plan,                        \* SpecScenario: sequence numbers of the packets still to deliver
  emitted,                     \* number of samples returned by parseSamples so far
  \* ---- host, web/serial.js ----
  dataBuffer,                  \* Uint8Array accumulating incoming bytes
  callbacks,                   \* the callbacks invoked (and console lines printed), in order
  \* ---- the serial link ----
  wire,                        \* bytes written by the device, not yet read by the host
  cut,                         \* TRUE when part of the pending bytes has already been read
  nItems,                      \* frames and garbage bytes put on the wire so far
  sent,                        \* the callbacks the well-formed frames put on the wire stand for
  noise,                       \* what kind of garbage the stream has held so far
  lastGarbage,                 \* the last thing put on the wire, when it was a garbage byte
  lastRun,                     \* the last processBuffer call: buffer given, callbacks before
  port,                        \* serial.js `port': "null" or "open"
  sessions,                    \* connectSerial calls that succeeded so far
  \* ---- device, the shared serial sink ----
  mutex,                       \* the task holding the serial mutex, or "free"
  writers,                     \* for each writing task: where it is in its write
  sink,                        \* the pieces of frames written to Serial, in order
  \* ---- device, the thermal library ----
  mlxReady,                    \* bool mlxReady
  mlxMockMode,                 \* bool mlxMockMode
  thermalFrame,                \* float thermalFrame[768], each in units of 2^-19 degrees
  thermalPc,                   \* "boot" before thermalInit was called, "run" after
  thermalReturned,             \* what the last thermalInit / thermalReadFrame call returned
  mlxBegin,                    \* what mlx.begin returned in thermalInit: "none" before the call
  thermalTx,                   \* for each thermal frame written: thermalFrame then, and the bytes
  \* ---- host, the read loop of web/serial.js and the SerialPort behind it ----
  portOpened,                  \* the SerialPort is open
  stream,                      \* the SerialPort's current readable stream (id 0: none) and its lock
  reader,                      \* serial.js `reader': the number of the reader, 0 for null
  readableStreamClosed,        \* serial.js `readableStreamClosed': the number of the promise, 0 for null
  inner,                       \* the inner async function of readSerialData that runs now
  promises,                    \* for each inner async function started: the state of its promise
  loop,                        \* readSerialData: where it is, and the promise it awaits
  disc,                        \* disconnectSerial: where it is, calls made, what the last call returned
  cancelSeen,                  \* "cancelled" once disconnectSerial cancelled a reader of this
                               \* session, "reacquired" once the loop got a reader after that
  \* ---- host, the application: web/main.js, web/btn.js, web/state.js ----
  currentState,                \* this.currentState / StateMachine._currentState
  buttonState,                 \* btn.js `buttonState': the last button count reported
  timers,                      \* the setTimeout timers pending in the page
  currentTimer,                \* _buttonHoldTimer / _currentTimer: a timer's handle, 0 for null
  app,                         \* the recorders and the two buttons of the page
  sinceEnter,                  \* time spent in currentState, in ticks (capped)
  appEvents,                   \* button reports, clicks and data callbacks so far
  \* ---- device, audioResetState in the main loop beside the audio task ----
  race                         \* where audioResetState is, and which encoder states the
                               \* nibbles of the packet being built were encoded from

devVars   == <<adpcmPredicted, adpcmIndex, audioTxBuffer, audioSampleIndex,
               audioSequenceNumber, audioCurrentByte, audioHighNibble,
               audioPacketStartPredicted, audioPacketStartIndex, serialTx>>
envVars   == <<signal, nSamples, nResets, pktPre, txPre, sinceReset, returned>>
reconVars == <<lastCall, history, plan, emitted>>
demuxVars == <<dataBuffer, callbacks, wire, cut, nItems, sent, noise, lastGarbage, lastRun>>
sessVars  == <<port, sessions>>
sinkVars  == <<mutex, writers, sink>>
thermVars == <<mlxReady, mlxMockMode, thermalFrame, thermalPc, thermalReturned, mlxBegin,
               thermalTx>>
loopVars  == <<portOpened, stream, reader, readableStreamClosed, inner, promises, loop, disc,
               cancelSeen>>
appVars   == <<currentState, buttonState, timers, currentTimer, app, sinceEnter, appEvents>>
raceVars  == <<race>>
moreVars  == <<thermVars, loopVars, appVars, raceVars>>
vars      == <<devVars, envVars, ap, reconVars, demuxVars, sessVars, sinkVars, moreVars>>

-----------------------------------------------------------------------------
(* Integer helpers: the widths and bit operations of the C and JS code.     *)

Min(a, b) == IF a < b THEN a ELSE b
Max(a, b) == IF a > b THEN a ELSE b
Abs(a)    == IF a < 0 THEN -a ELSE a

\* conversion to int16_t / int8_t / uint8_t / uint16_t (two's complement wrap)
ToInt16(x)  == ((x + 32768) % 65536) - 32768
ToInt8(x)   == ((x + 128) % 256) - 128
ToUint8(x)  == x % 256
ToUint16(x) == x % 65536

\* bit k of a non-negative integer
Bit(n, k) == (n \div (2 ^ k)) % 2
\* a | b on bytes
BitOr8(a, b) ==
  LET or(k) == IF Bit(a, k) = 1 \/ Bit(b, k) = 1 THEN 2 ^ k ELSE 0
  IN or(0) + or(1) + or(2) + or(3) + or(4) + or(5) + or(6) + or(7)
\* x >> k on a signed value (arithmetic shift)
Shr(x, k) == x \div (2 ^ k)

Last(s) == s[Len(s)]

\* DataView.getUint16(off, true), getInt16(off, true), getUint8(off) on a byte
\* sequence (off counted from 0, as in the code)
GetUint16LE(buf, off) == buf[off + 1] + 256 * buf[off + 2]
GetInt16LE(buf, off) ==
  LET u == GetUint16LE(buf, off) IN IF u >= 32768 THEN u - 65536 ELSE u
GetUint8(buf, off) == buf[off + 1]

-----------------------------------------------------------------------------
(* The IMA ADPCM tables, identical in lib-02-audio.ino and web/audio.js.    *)

adpcmStepTable ==
  << 7, 8, 9, 10, 11, 12, 13, 14, 16, 17, 19, 21, 23, 25, 28, 31,
     34, 37, 41, 45, 50, 55, 60, 66, 73, 80, 88, 97, 107, 118, 130,
     143, 157, 173, 190, 209, 230, 253, 279, 307, 337, 371, 408, 449,
     494, 544, 598, 658, 724, 796, 876, 963, 1060, 1166, 1282, 1411,
     1552, 1707, 1878, 2066, 2272, 2499, 2749, 3024, 3327, 3660, 4026,
     4428, 4871, 5358, 5894, 6484, 7132, 7845, 8630, 9493, 10442, 11487,
     12635, 13899, 15289, 16818, 18500, 20350, 22385, 24623, 27086, 29794, 32767 >>

adpcmIndexTable == << -1, -1, -1, -1, 2, 4, 6, 8, -1, -1, -1, -1, 2, 4, 6, 8 >>

STEP_TABLE ==
  << 7, 8, 9, 10, 11, 12, 13, 14, 16, 17, 19, 21, 23, 25, 28, 31, 34, 37, 41, 45,
     50, 55, 60, 66, 73, 80, 88, 97, 107, 118, 130, 143, 157, 173, 190, 209, 230, 253,
     279, 307, 337, 371, 408, 449, 494, 544, 598, 658, 724, 796, 876, 963, 1060, 1166,
     1282, 1411, 1552, 1707, 1878, 2066, 2272, 2499, 2749, 3024, 3327, 3660,
     4026, 4428, 4871, 5358, 5894, 6484, 7132, 7845, 8630, 9493, 10442, 11487, 12635,
     13899, 15289, 16818, 18500, 20350, 22385, 24623, 27086, 29794, 32767 >>

INDEX_TABLE == << -1, -1, -1, -1, 2, 4, 6, 8, -1, -1, -1, -1, 2, 4, 6, 8 >>

-----------------------------------------------------------------------------
(* Device: encodeADPCMSample.  The predictor is an int16_t: the sum is      *)
(* converted back to 16 bits by the assignment, before the clamp tests.     *)

encodeADPCMSample(predicted, index, sample) ==
  LET step  == adpcmStepTable[index + 1]
      diff0 == sample - predicted
      sign  == IF diff0 < 0 THEN 8 ELSE 0
      diff1 == IF diff0 < 0 THEN -diff0 ELSE diff0
      b4    == IF diff1 >= step THEN 4 ELSE 0
      diff2 == IF diff1 >= step THEN diff1 - step ELSE diff1
      b2    == IF diff2 >= Shr(step, 1) THEN 2 ELSE 0
      diff3 == IF diff2 >= Shr(step, 1) THEN diff2 - Shr(step, 1) ELSE diff2
      b1    == IF diff3 >= Shr(step, 2) THEN 1 ELSE 0
      nibble == sign + b4 + b2 + b1
      delta == Shr(step, 3)
               + (IF Bit(nibble, 2) = 1 THEN step ELSE 0)
               + (IF Bit(nibble, 1) = 1 THEN Shr(step, 1) ELSE 0)
               + (IF Bit(nibble, 0) = 1 THEN Shr(step, 2) ELSE 0)
      \* adpcmPredicted -= delta / += delta, stored into an int16_t
      stored == IF Bit(nibble, 3) = 1 THEN ToInt16(predicted - delta)
                                      ELSE ToInt16(predicted + delta)
      clampHi == IF stored > 32767 THEN 32767 ELSE stored
      clampLo == IF clampHi < -32768 THEN -32768 ELSE clampHi
      idx0 == ToInt8(index + adpcmIndexTable[nibble + 1])
      idx1 == IF idx0 < 0 THEN 0 ELSE idx0
      idx2 == IF idx1 > 88 THEN 88 ELSE idx1
  IN [nibble |-> nibble, predicted |-> clampLo, index |-> idx2]

-----------------------------------------------------------------------------
(* Host: AudioProcessor._decodeADPCMNibble, on the object p.                *)

\* lines 88-91: delta
NibbleDelta_NoShift(step, nibble) ==
  step
  + (IF Bit(nibble, 2) = 1 THEN step ELSE 0)
  + (IF Bit(nibble, 1) = 1 THEN Shr(step, 1) ELSE 0)
  + (IF Bit(nibble, 0) = 1 THEN Shr(step, 2) ELSE 0)

NibbleDelta(step, nibble) ==
  Shr(step, 3)
  + (IF Bit(nibble, 2) = 1 THEN step ELSE 0)
  + (IF Bit(nibble, 1) = 1 THEN Shr(step, 1) ELSE 0)
  + (IF Bit(nibble, 0) = 1 THEN Shr(step, 2) ELSE 0)

\* lines 101-102 (and line 145): clamp to the 16-bit range
ClampSample_LowOnly(x) == IF x < -32768 THEN -32768 ELSE x

ClampSample(x) == IF x > 32767 THEN 32767 ELSE IF x < -32768 THEN -32768 ELSE x

\* lines 106-107
ClampIndex(x) == IF x < 0 THEN 0 ELSE IF x > 88 THEN 88 ELSE x

\* The not-a-number of JS arithmetic: a value outside every range the code
\* computes in, which Plus and the clamp of lines 101-102 hand on.
NaN == 2147483647

\* a + b and a - b on JS numbers
Plus(a, b)  == IF a = NaN \/ b = NaN THEN NaN ELSE a + b
Minus(a, b) == IF a = NaN \/ b = NaN THEN NaN ELSE a - b

\* lines 85-91: STEP_TABLE[adpcmIndex] is undefined for an index that the
\* table does not have; undefined >> k is 0 and delta + undefined is NaN
StepDelta(index, nibble) ==
  IF index \in 0..88 THEN NibbleDelta(STEP_TABLE[index + 1], nibble)
  ELSE IF Bit(nibble, 2) = 1 THEN NaN ELSE 0

\* lines 101-102: both comparisons are false for NaN
ClampPredicted(x) == IF x = NaN THEN NaN ELSE ClampSample(x)

decodeADPCMNibble(p, nibble) ==
  [p EXCEPT
     !.adpcmPredicted =
        ClampPredicted(IF Bit(nibble, 3) = 1
                       THEN Minus(@, StepDelta(p.adpcmIndex, nibble))
                       ELSE Plus(@, StepDelta(p.adpcmIndex, nibble))),
     !.adpcmIndex = ClampIndex(@ + INDEX_TABLE[nibble + 1])]

\* new AudioProcessor(): the constructor's field values
NewAudioProcessor ==
  [ adpcmPredicted |-> 0, adpcmIndex |-> 0, expectedSeq |-> 0, lastSample |-> 0,
    droppedPackets |-> 0, totalPackets |-> 0, totalSamplesDecoded |-> 0 ]

-----------------------------------------------------------------------------
(* Bounds of the model.                                                     *)

MaxCodecSteps == 11     \* samples encoded and decoded side by side
MaxSamples    == 238    \* samples the microphone delivers to the encoder (two packets and two more)
MaxResets     == 1      \* audioResetState calls

\* the program's constants
AUDIO_HEADER_SIZE     == 5
AUDIO_ADPCM_DATA_SIZE == 59
AUDIO_BUFFER_SIZE     == 66

\* inputs
CodecSamples        == {-32768, 0, 32767}
CodecStartPredicted == {0}
CodecStartIndex     == {0}
Signals             == {"alt"}

\* the sample the microphone delivers as its n-th (n counted from 0)
SampleOf(sig, n) ==
  IF sig = "alt" THEN (IF n % 2 = 0 THEN 32767 ELSE -32768)
  ELSE 0

-----------------------------------------------------------------------------
(* Initial values of each group of variables.                               *)

DevPacketInit ==
  /\ audioTxBuffer = [i \in 1..AUDIO_BUFFER_SIZE |-> 0]
  /\ audioSampleIndex = 0
  /\ audioSequenceNumber = 0
  /\ audioCurrentByte = 0
  /\ audioHighNibble = FALSE
  /\ audioPacketStartPredicted = 0
  /\ audioPacketStartIndex = 0
  /\ serialTx = << >>

DevInit ==
  /\ adpcmPredicted = 0
  /\ adpcmIndex = 0
  /\ DevPacketInit

NoPre == [set |-> FALSE, predicted |-> 0, index |-> 0]

EnvInit ==
  /\ signal = "none"
  /\ nSamples = 0
  /\ nResets = 0
  /\ pktPre = NoPre
  /\ txPre = << >>
  /\ sinceReset = 0
  /\ returned = FALSE

NoCall == [made |-> FALSE, seq |-> 0, packet |-> << >>, before |-> NewAudioProcessor,
           samples |-> << >>, decodedSamples |-> << >>]

ReconInit ==
  /\ lastCall = NoCall
  /\ history = << >>
  /\ plan = << >>
  /\ emitted = 0

NoRun == [made |-> FALSE, buffer |-> << >>, before |-> 0]

DemuxInit ==
  /\ dataBuffer = << >>
  /\ callbacks = << >>
  /\ wire = << >>
  /\ cut = FALSE
  /\ nItems = 0
  /\ sent = << >>
  /\ noise = "none"
  /\ lastGarbage = -1
  /\ lastRun = NoRun

\* serial.js line 4: let port = null
SessInit ==
  /\ port = "null"
  /\ sessions = 0

\* the tasks that write to Serial: the audio task, the thermal task and the
\* control loop that sends button and debug lines
Tasks == {"audio", "thermal", "control"}

IdleWriter == [pc |-> "idle", frame |-> 0, piece |-> 0]

SinkInit ==
  /\ mutex = "free"
  /\ writers = [t \in Tasks |-> IdleWriter]
  /\ sink = << >>

THERMAL_FRAME_PIXELS == 768     \* thermalFrameSize = 32 * 24

\* the thermal library's globals before thermalInit: mlxReady = false,
\* mlxMockMode = false, and the frame buffer zero as every C global
ThermInit ==
  /\ mlxReady = FALSE
  /\ mlxMockMode = FALSE
  /\ thermalFrame = [i \in 1..THERMAL_FRAME_PIXELS |-> 0]
  /\ thermalPc = "boot"
  /\ thermalReturned = FALSE
  /\ mlxBegin = "none"
  /\ thermalTx = << >>

\* serial.js lines 4-6: port, reader and readableStreamClosed are null; no
\* readSerialData and no disconnectSerial is running
NoStream == [id |-> 0, locked |-> FALSE]

LoopInit ==
  /\ portOpened = FALSE
  /\ stream = NoStream
  /\ reader = 0
  /\ readableStreamClosed = 0
  /\ inner = [id |-> 0, pc |-> "none"]
  /\ promises = << >>
  /\ loop = [pc |-> "none", on |-> 0]
  /\ disc = [pc |-> "idle", on |-> 0, calls |-> 0, returned |-> "none"]
  /\ cancelSeen = "none"

\* state.js lines 17-25 (main.js lines 23-31)
AppState ==
  [ EMPTY |-> "empty", WARMUP |-> "warmup", RECORDING |-> "recording",
    COOLDOWN |-> "cooldown", LOADED |-> "loaded", REWARMUP |-> "rewarmup",
    REPLAY |-> "replay" ]

\* the application after its constructor: state EMPTY, no timer, both
\* recorders empty and not recording (audio.js 25-26, recorder.js 5-7), the
\* record and stop buttons disabled until a port is connected (main.js 390,
\* 436), no button count reported yet (btn.js 7)
NewApp ==
  [ audio_isRecording |-> FALSE, audio_recordedSamples |-> 0,
    thermalRecorder_isRecording |-> FALSE, thermalRecorder_frames |-> 0,
    recordBtn_disabled |-> TRUE, stopBtn_disabled |-> TRUE,
    serialConnectBtn_disabled |-> FALSE,
    handler |-> "constructor", thrown |-> FALSE, onTransition |-> << >> ]

AppInit ==
  /\ currentState = AppState.EMPTY
  /\ buttonState = 0
  /\ timers = {}
  /\ currentTimer = 0
  /\ app = NewApp
  /\ sinceEnter = 0
  /\ appEvents = 0

\* an encoder state, and what is known of the packet being built before its
\* first nibble is encoded
EncoderState(predicted, index) == [predicted |-> predicted, index |-> index]
NoNibble == [pre |-> EncoderState(0, 0), post |-> EncoderState(0, 0)]
NoChain  == [first |-> EncoderState(0, 0), next |-> EncoderState(0, 0), ok |-> TRUE]

\* audioResetState is not running; no nibble encoded yet
RaceInit ==
  race = [pc |-> 0, during |-> 0, low |-> NoNibble, chain |-> NoChain, tx |-> << >>]

MoreInit == ThermInit /\ LoopInit /\ AppInit /\ RaceInit

-----------------------------------------------------------------------------
(* SpecCodec: the device's encodeADPCMSample and the host's                 *)
(* _decodeADPCMNibble started from the same (predictor, step index); every  *)
(* nibble the encoder produces is decoded at once.                          *)

InitCodec ==
  /\ DevPacketInit /\ EnvInit /\ ReconInit /\ DemuxInit /\ SessInit /\ SinkInit /\ MoreInit
  /\ \E p \in CodecStartPredicted, i \in CodecStartIndex :
        /\ adpcmPredicted = p
        /\ adpcmIndex = i
        /\ ap = [NewAudioProcessor EXCEPT !.adpcmPredicted = p, !.adpcmIndex = i]

CodecStep(sample) ==
  /\ nSamples < MaxCodecSteps
  /\ LET e == encodeADPCMSample(adpcmPredicted, adpcmIndex, sample)
     IN /\ adpcmPredicted' = e.predicted
        /\ adpcmIndex' = e.index
        /\ ap' = decodeADPCMNibble(ap, e.nibble)
  /\ nSamples' = nSamples + 1
  /\ UNCHANGED <<audioTxBuffer, audioSampleIndex, audioSequenceNumber, audioCurrentByte,
                 audioHighNibble, audioPacketStartPredicted, audioPacketStartIndex, serialTx>>
  /\ UNCHANGED <<signal, nResets, pktPre, txPre, sinceReset, returned>>
  /\ UNCHANGED <<reconVars, demuxVars, sessVars, sinkVars, moreVars>>

NextCodec == \E sample \in CodecSamples : CodecStep(sample)

SpecCodec == InitCodec /\ [][NextCodec]_vars

\* C5: encoder and decoder are bit-identical: started from the same
\* (predictor, step index), after every sample the predictor and the step
\* index are equal on both sides.
C5_CodecInSync ==
  /\ adpcmPredicted = ap.adpcmPredicted
  /\ adpcmIndex = ap.adpcmIndex

-----------------------------------------------------------------------------
(* Device: audioProcessSample and audioResetState.                          *)

\* line 116: the test that a new packet starts with this sample
IsPacketStart_IgnoresNibble(sampleIndex, highNibble) == sampleIndex = 0

IsPacketStart(sampleIndex, highNibble) == sampleIndex = 0 /\ ~highNibble

\* lines 138-149: the 7 header bytes written in front of the 59 data bytes
WriteAudioHeader_SeqLowByteOnly(buf, seq, startPredicted, startIndex) ==
  [buf EXCEPT ![1] = 202, ![2] = 2, ![3] = seq % 256, ![4] = 0,
              ![5] = startPredicted % 256,
              ![6] = Shr(startPredicted, 8) % 256,
              ![7] = ToUint8(startIndex)]

WriteAudioHeader(buf, seq, startPredicted, startIndex) ==
  [buf EXCEPT ![1] = 202,                                   \* 0xCA
              ![2] = 2,                                     \* 0x02
              ![3] = seq % 256,                             \* seq & 0xFF
              ![4] = Shr(seq, 8) % 256,                     \* (seq >> 8) & 0xFF
              ![5] = startPredicted % 256,                  \* predicted & 0xFF
              ![6] = Shr(startPredicted, 8) % 256,          \* (predicted >> 8) & 0xFF
              ![7] = ToUint8(startIndex)]                   \* (uint8_t)index

audioProcessSample(sample) ==
  LET start  == IsPacketStart(audioSampleIndex, audioHighNibble)
      startP == IF start THEN adpcmPredicted ELSE audioPacketStartPredicted
      startI == IF start THEN adpcmIndex ELSE audioPacketStartIndex
      e      == encodeADPCMSample(adpcmPredicted, adpcmIndex, sample)
      \* the environment's record of the state before the packet's first sample
      pre    == IF pktPre.set THEN pktPre
                ELSE [set |-> TRUE, predicted |-> adpcmPredicted, index |-> adpcmIndex]
  IN
  /\ audioPacketStartPredicted' = startP
  /\ audioPacketStartIndex' = startI
  /\ adpcmPredicted' = e.predicted
  /\ adpcmIndex' = e.index
  /\ IF ~audioHighNibble
     THEN \* first nibble of the byte
          /\ audioCurrentByte' = e.nibble
          /\ audioHighNibble' = TRUE
          /\ pktPre' = pre
          /\ returned' = FALSE                                 \* line 127
          /\ UNCHANGED <<audioTxBuffer, audioSampleIndex, audioSequenceNumber, serialTx, txPre>>
     ELSE \* second nibble: pack and store
          LET byte == BitOr8(audioCurrentByte, ToUint8(e.nibble * 16))
              buf1 == [audioTxBuffer EXCEPT ![2 + AUDIO_HEADER_SIZE + audioSampleIndex + 1] = byte]
              idx1 == audioSampleIndex + 1
          IN
          /\ audioCurrentByte' = byte
          /\ audioHighNibble' = FALSE
          /\ IF idx1 >= AUDIO_ADPCM_DATA_SIZE
             THEN LET buf2 == WriteAudioHeader(buf1, audioSequenceNumber, startP, startI)
                  IN /\ audioTxBuffer' = buf2
                     /\ serialTx' = Append(serialTx, buf2)     \* serialWriteProtected
                     /\ audioSequenceNumber' = ToUint16(audioSequenceNumber + 1)
                     /\ audioSampleIndex' = 0
                     /\ txPre' = Append(txPre, pre)
                     /\ pktPre' = NoPre
                     /\ returned' = TRUE                      \* line 157
             ELSE /\ audioTxBuffer' = buf1
                  /\ audioSampleIndex' = idx1
                  /\ pktPre' = pre
                  /\ returned' = FALSE                        \* line 159
                  /\ UNCHANGED <<audioSequenceNumber, serialTx, txPre>>

audioResetState ==
  /\ audioSampleIndex' = 0
  /\ audioSequenceNumber' = 0
  /\ adpcmPredicted' = 0
  /\ adpcmIndex' = 0
  /\ audioHighNibble' = FALSE
  /\ audioPacketStartPredicted' = 0
  /\ audioPacketStartIndex' = 0
  /\ UNCHANGED <<audioTxBuffer, audioCurrentByte, serialTx>>

(* SpecEncoder: the audio task feeds the microphone's samples to            *)
(* audioProcessSample; the main loop may call audioResetState between two   *)
(* samples.                                                                 *)

InitEncoder ==
  /\ DevInit /\ ReconInit /\ DemuxInit /\ SessInit /\ SinkInit /\ MoreInit
  /\ ap = NewAudioProcessor
  /\ signal \in Signals
  /\ nSamples = 0
  /\ nResets = 0
  /\ pktPre = NoPre
  /\ txPre = << >>
  /\ sinceReset = 0
  /\ returned = FALSE

ProcessSample ==
  /\ nSamples < MaxSamples
  /\ audioProcessSample(SampleOf(signal, nSamples))
  /\ nSamples' = nSamples + 1
  /\ sinceReset' = sinceReset + 1
  /\ UNCHANGED <<signal, nResets, ap, reconVars, demuxVars, sessVars, sinkVars, moreVars>>

ResetState ==
  /\ nResets < MaxResets
  /\ nSamples < MaxSamples
  /\ audioResetState
  /\ nResets' = nResets + 1
  /\ pktPre' = NoPre
  /\ sinceReset' = 0
  /\ UNCHANGED returned
  /\ UNCHANGED <<signal, nSamples, txPre, ap, reconVars, demuxVars, sessVars, sinkVars, moreVars>>

NextEncoder == ProcessSample \/ ResetState

SpecEncoder == InitEncoder /\ [][NextEncoder]_vars

\* the ADPCM packet inside a transmitted frame (the frame without its 2-byte marker)
PacketOf(frame) == SubSeq(frame, 3, Len(frame))

\* C4: every transmitted audio packet's header (predictor, stepIndex), read
\* the way the host reads it, equals the encoder state immediately before the
\* packet's first sample was encoded, and the header stepIndex is in [0, 88];
\* audioResetState may have been called between any two samples.
C4_HeaderIsStateBeforePacket ==
  /\ Len(txPre) = Len(serialTx)
  /\ \A k \in 1..Len(serialTx) :
        /\ GetInt16LE(PacketOf(serialTx[k]), 2) = txPre[k].predicted
        /\ GetUint8(PacketOf(serialTx[k]), 4) = txPre[k].index
        /\ GetUint8(PacketOf(serialTx[k]), 4) \in 0..88

\* C4 witness: the encoder was reset in the middle of a packet, and has since
\* transmitted two packets, the second with a header that is not the reset state.
C4_Witness ==
  /\ nResets = 1
  /\ nSamples > 2 * 2 * AUDIO_ADPCM_DATA_SIZE
  /\ Len(serialTx) = 2
  /\ audioSequenceNumber = 2
  /\ GetUint8(PacketOf(serialTx[2]), 4) > 0
  /\ GetInt16LE(PacketOf(serialTx[2]), 2) # 0

-----------------------------------------------------------------------------
(* SpecProducer: the audio producer from either of two device states: just  *)
(* started, or after 65535 packets of silence (every sample 0 leaves the     *)
(* predictor and the step index at 0 and every data byte 0), when the        *)
(* uint16_t sequence number is about to wrap.                                *)

\* the device state after n packets of silence, n >= 1
SilentRun(n) ==
  /\ adpcmPredicted = 0
  /\ adpcmIndex = 0
  /\ audioTxBuffer = WriteAudioHeader([i \in 1..AUDIO_BUFFER_SIZE |-> 0], ToUint16(n - 1), 0, 0)
  /\ audioSampleIndex = 0
  /\ audioSequenceNumber = ToUint16(n)
  /\ audioCurrentByte = 0
  /\ audioHighNibble = FALSE
  /\ audioPacketStartPredicted = 0
  /\ audioPacketStartIndex = 0
  /\ serialTx = << >>

InitProducer ==
  /\ DevInit \/ SilentRun(65535)
  /\ ReconInit /\ DemuxInit /\ SessInit /\ SinkInit /\ MoreInit
  /\ ap = NewAudioProcessor
  /\ signal \in Signals
  /\ nSamples = 0
  /\ nResets = 0
  /\ pktPre = NoPre
  /\ txPre = << >>
  /\ sinceReset = 0
  /\ returned = FALSE

SpecProducer == InitProducer /\ [][NextEncoder]_vars

\* the sequence number in a transmitted frame's header
SeqOf(frame) == GetUint16LE(PacketOf(frame), 0)

\* a step in which a frame is handed to the transmitter
SendsFrame == Len(serialTx') = Len(serialTx) + 1

\* C14: a step transmits a frame exactly when it processes the 118th, 236th,
\* ... sample accepted since the last reset, and audioProcessSample returns
\* true exactly then; the frame is one complete 66-byte audio frame; the
\* first frame after audioResetState has sequence number 0 and each further
\* frame the sequence number of the one before plus 1 modulo 65536.
C14_FrameEvery118Samples ==
  [][ /\ Len(serialTx') \in {Len(serialTx), Len(serialTx) + 1}
      /\ SendsFrame <=> (sinceReset' = sinceReset + 1 /\ sinceReset' % 118 = 0)
      /\ sinceReset' = sinceReset + 1 => (returned' <=> SendsFrame)
      /\ SendsFrame =>
           /\ Len(Last(serialTx')) = 66
           /\ SubSeq(Last(serialTx'), 1, 2) = <<202, 2>>
           /\ (sinceReset' = 118 /\ nResets > 0) => SeqOf(Last(serialTx')) = 0
           /\ sinceReset' > 118 =>
                SeqOf(Last(serialTx')) = (SeqOf(Last(serialTx)) + 1) % 65536
    ]_vars

\* C14 witness: two frames were transmitted without a reset, on the 118th
\* and on the 236th sample, numbered 65535 and 0.
C14_Witness ==
  /\ nResets = 0
  /\ sinceReset = 236
  /\ returned
  /\ Len(serialTx) = 2
  /\ SeqOf(serialTx[1]) = 65535
  /\ SeqOf(serialTx[2]) = 0

-----------------------------------------------------------------------------
(* Host: AudioProcessor.parseSamples and _interpolateGap.                   *)

SAMPLES_PER_PACKET == 118
HEADER_SIZE        == 5
GAP_LIMIT          == 1000      \* the literal 1000 of lines 207 and 216

\* inputs: header predictor, header step index and the value of all 59 data bytes
PacketContents == { <<-300, 40, 60>>, <<32000, 88, 119>> }

\* lines 180-181: sync the decoder to the packet's header
SyncToPacket_PredictorOnly(p, packetPredicted, packetIndex) ==
  [p EXCEPT !.adpcmPredicted = packetPredicted]

SyncToPacket(p, packetPredicted, packetIndex) ==
  [p EXCEPT !.adpcmPredicted = packetPredicted, !.adpcmIndex = packetIndex]

\* lines 183-194: decode the bytes from offset i on, low nibble first.
\* (The test on Len(acc) and p.adpcmIndex only makes the evaluator compute
\* both before it recurses; it is never true.)
RECURSIVE DecodeBytes(_, _, _, _)
DecodeBytes(p, data, i, acc) ==
  IF i >= Len(data) \/ Len(acc) + p.adpcmIndex < 0
  THEN [adpcmPredicted |-> p.adpcmPredicted, adpcmIndex |-> p.adpcmIndex,
        decodedSamples |-> acc]
  ELSE LET p1 == decodeADPCMNibble(p, data[i + 1] % 16)                 \* byte & 0x0f
           p2 == decodeADPCMNibble(p1, (data[i + 1] \div 16) % 16)      \* (byte >> 4) & 0x0f
       IN DecodeBytes(p2, data, i + 1,
                      acc \o <<p1.adpcmPredicted, p2.adpcmPredicted>>)

\* The decode loop started at (predicted, index) on the data bytes: what it
\* leaves in the decoder and the samples it pushes.
DecodeFrom(predicted, index, data) ==
  DecodeBytes([adpcmPredicted |-> predicted, adpcmIndex |-> index], data, 0, << >>)

\* DecodeFrom, computed once for the packets the model delivers unchanged
DecodeTable ==
  [k \in { <<c[1], c[2], [i \in 1..59 |-> c[3]]>> : c \in PacketContents } |->
     DecodeFrom(k[1], k[2], k[3])]

\* DecodeFrom through the table, where the table has the entry
DecodeAt(key) ==
  IF key \in DOMAIN DecodeTable THEN DecodeTable[key]
  ELSE DecodeFrom(key[1], key[2], key[3])

\* the object and the local decodedSamples after the loop
Decoded(p, d) ==
  [p |-> [p EXCEPT !.adpcmPredicted = d.adpcmPredicted, !.adpcmIndex = d.adpcmIndex],
   decodedSamples |-> d.decodedSamples]

\* lines 183-194 on object p
DecodeLoop(p, buffer) ==
  Decoded(p, DecodeAt(<<p.adpcmPredicted, p.adpcmIndex,
                        SubSeq(buffer, HEADER_SIZE + 1, Len(buffer))>>))

\* line 202
GapOf(seq, expectedSeq) == (seq - expectedSeq + 65536) % 65536

\* line 120
MissingSamples_OneShort(gapPackets) == (gapPackets - 1) * SAMPLES_PER_PACKET

MissingSamples(gapPackets) == gapPackets * SAMPLES_PER_PACKET

\* line 223: (seq + 1) & 0xffff
NextExpectedSeq_NoMask(seq) == seq + 1

NextExpectedSeq(seq) == (seq + 1) % 65536

\* lines 204-220: the branch taken for a packet that is not the first
GapClass_FarIsStale(gap) ==
  IF gap = 0 THEN "normal"
  ELSE IF gap > 0 /\ gap < GAP_LIMIT THEN "dropped"
  ELSE "stale"

GapClass_WideStale(gap) ==
  IF gap = 0 THEN "normal"
  ELSE IF gap > 0 /\ gap < GAP_LIMIT THEN "dropped"
  ELSE IF gap >= 65536 - GAP_LIMIT - 1 THEN "stale"
  ELSE "other"

GapClass_StaleIsAccepted(gap) ==
  IF gap = 0 THEN "normal"
  ELSE IF gap > 0 /\ gap < GAP_LIMIT THEN "dropped"
  ELSE "other"

GapClass(gap) ==
  IF gap = 0 THEN "normal"
  ELSE IF gap > 0 /\ gap < GAP_LIMIT THEN "dropped"
  ELSE IF gap >= 65536 - GAP_LIMIT THEN "stale"
  ELSE "other"

(* _interpolateGap.  The code computes in floating point with Math.cos,     *)
(* Math.sin and Math.random.  Here t = (i + 1) / (missingSamples + 1), the  *)
(* cosine blend (1 - cos(t pi)) / 2 and the noise envelope sin(t pi) are    *)
(* fixed-point numbers in 1/256, the blend taken as the smoothstep          *)
(* 3t^2 - 2t^3 and the envelope as 4t(1 - t); rnd in {-1, 1} stands for the *)
(* extreme values of (Math.random() - 0.5) * 2, one draw for the whole gap. *)
CosBlend      == [t \in 0..256 |-> (t * t * (768 - 2 * t)) \div 65536]
NoiseEnvelope == [t \in 0..256 |-> (4 * t * (256 - t)) \div 256]

interpolateGap(p, gapPackets, nextFirstSample, rnd) ==
  LET missingSamples == MissingSamples(gapPackets)
      startSample == p.lastSample
      endSample   == nextFirstSample
      \* amplitude * 0.3, at most 500, times the random draw
      noiseLevel  == rnd * Min((Abs(startSample - endSample) * 3) \div 20, 500)
      at(i) ==
        LET t == ((i + 1) * 256) \div (missingSamples + 1)
        IN ClampSample((startSample * (256 - CosBlend[t]) + endSample * CosBlend[t]) \div 256
                       + (noiseLevel * NoiseEnvelope[t]) \div 256)
  IN [i \in 1..missingSamples |-> at(i - 1)]

\* lines 196-235 on the object p2 and the decodedSamples the decode loop left:
\* the object afterwards, the samples returned and the local decodedSamples
HandleLoss_FirstChecked(p2, decodedSamples, seq, rnd) ==
  LET gap   == GapOf(seq, p2.expectedSeq)
      class == GapClass(gap)
      p3    == IF class = "dropped" THEN [p2 EXCEPT !.droppedPackets = @ + gap] ELSE p2
      firstNewSample == IF Len(decodedSamples) > 0 THEN decodedSamples[1] ELSE p2.lastSample
      samples ==
        (IF class = "dropped" THEN interpolateGap(p2, gap, firstNewSample, rnd) ELSE << >>)
        \o decodedSamples
  IN
  IF class = "stale"
  THEN [p |-> p2, samples |-> << >>, decodedSamples |-> decodedSamples]
  ELSE [p |-> [p3 EXCEPT !.expectedSeq = NextExpectedSeq(seq),
                         !.totalSamplesDecoded = @ + Len(samples),
                         !.lastSample = IF Len(decodedSamples) > 0
                                        THEN Last(decodedSamples) ELSE @],
        samples |-> samples, decodedSamples |-> decodedSamples]

HandleLoss(p2, decodedSamples, seq, rnd) ==
  LET gap   == GapOf(seq, p2.expectedSeq)
      class == IF p2.totalPackets > 1 THEN GapClass(gap) ELSE "first"
      p3    == IF class = "dropped" THEN [p2 EXCEPT !.droppedPackets = @ + gap] ELSE p2
      firstNewSample == IF Len(decodedSamples) > 0 THEN decodedSamples[1] ELSE p2.lastSample
      samples ==
        (IF class = "dropped" THEN interpolateGap(p2, gap, firstNewSample, rnd) ELSE << >>)
        \o decodedSamples
  IN
  IF class = "stale"
  THEN [p |-> p2, samples |-> << >>, decodedSamples |-> decodedSamples]
  ELSE [p |-> [p3 EXCEPT !.expectedSeq = NextExpectedSeq(seq),
                         !.totalSamplesDecoded = @ + Len(samples),
                         !.lastSample = IF Len(decodedSamples) > 0
                                        THEN Last(decodedSamples) ELSE @],
        samples |-> samples, decodedSamples |-> decodedSamples]

\* lines 196-235 after the decode loop's result d
AfterDecode(d, seq, rnd) == HandleLoss(d.p, d.decodedSamples, seq, rnd)

\* parseSamples on object p: the object afterwards, the samples returned and
\* the local decodedSamples
parseSamples(p, buffer, rnd) ==
  AfterDecode(DecodeLoop(SyncToPacket([p EXCEPT !.totalPackets = @ + 1],   \* line 174
                                      GetInt16LE(buffer, 2), GetUint8(buffer, 4)),
                         buffer),
              GetUint16LE(buffer, 0), rnd)

-----------------------------------------------------------------------------
(* SpecRecon: audio packets are delivered to one AudioProcessor, with       *)
(* sequence numbers that repeat, skip ahead or fall behind.                 *)

MaxDeliveries == 3      \* packets delivered to the AudioProcessor
MaxGap        == 2      \* largest number of dropped packets between two deliveries

\* how far the delivered sequence number is ahead of the expected one
SeqOffsets ==
  (0..MaxGap) \cup {GAP_LIMIT, 65536 - GAP_LIMIT - 1, 65536 - GAP_LIMIT, 65535}

RandomDraws == {-1, 1}

\* the 64-byte ADPCM packet
MakePacket(seq, predicted, index, fill) ==
  << seq % 256, (seq \div 256) % 256,
     predicted % 256, Shr(predicted, 8) % 256,
     index >> \o [i \in 1..AUDIO_ADPCM_DATA_SIZE |-> fill]

InitRecon ==
  /\ DevInit /\ EnvInit /\ ReconInit /\ DemuxInit /\ SessInit /\ SinkInit /\ MoreInit
  /\ ap = NewAudioProcessor

\* the link hands one packet to parseSamples (main.js: audioProcessor.parseSamples(data))
Delivered(seq, packet, r) ==
  /\ ap' = r.p
  /\ lastCall' = [made |-> TRUE, seq |-> seq, packet |-> packet, before |-> ap,
                  samples |-> r.samples, decodedSamples |-> r.decodedSamples]
  /\ emitted' = emitted + Len(r.samples)
  /\ history' = Append(history, seq)

DeliverPacket(seq, content, rnd) ==
  Delivered(seq, MakePacket(seq, content[1], content[2], content[3]),
            parseSamples(ap, MakePacket(seq, content[1], content[2], content[3]), rnd))

Deliver(seq, content, rnd) ==
  /\ ap.totalPackets < MaxDeliveries
  /\ DeliverPacket(seq, content, rnd)
  /\ UNCHANGED <<plan, devVars, envVars, demuxVars, sessVars, sinkVars, moreVars>>

\* Math.random is only drawn when a gap is filled
NextRecon ==
  \E off \in SeqOffsets, content \in PacketContents :
    \E rnd \in (IF off \in 1..MaxGap /\ ap.totalPackets > 0 THEN RandomDraws ELSE {1}) :
       Deliver((ap.expectedSeq + off) % 65536, content, rnd)

SpecRecon == InitRecon /\ [][NextRecon]_vars

\* the last call, as the caller sees it
LastGap      == GapOf(lastCall.seq, lastCall.before.expectedSeq)
LastIsFirst  == lastCall.before.totalPackets = 0
LastDropped  == lastCall.made /\ ~LastIsFirst /\ LastGap > 0 /\ LastGap < 1000
LastStale    == lastCall.made /\ ~LastIsFirst /\ LastGap >= 65536 - 1000
LastInOrder  == lastCall.made /\ ~LastIsFirst /\ LastGap = 0
LastAccepted == lastCall.made /\ ~LastStale
LastFar      == lastCall.made /\ LastGap >= 1000 /\ LastGap < 65536 - 1000

\* The number of sequence numbers from the first accepted packet of h to the
\* last one, h read from position k with n counted so far; -1 when an
\* accepted packet is 1000 or more ahead of the expected number.
RECURSIVE Span(_, _, _, _)
Span(h, k, expected, n) ==
  IF k > Len(h) THEN n
  ELSE LET g == (h[k] - expected + 65536) % 65536
       IN IF g >= 65536 - 1000 THEN Span(h, k + 1, expected, n)
          ELSE IF g < 1000 THEN Span(h, k + 1, (h[k] + 1) % 65536, n + g + 1)
          ELSE -1

SpannedCount(h) == IF h = << >> THEN 0 ELSE Span(h, 2, (h[1] + 1) % 65536, 1)

\* C6: the samples decoded for a packet, and the decoder state the decode
\* leaves, are those a new AudioProcessor that has received nothing decodes
\* for the same bytes, whatever packets were received before.
C6_DecodeDependsOnPacketOnly ==
  lastCall.made =>
    LET fresh == parseSamples(NewAudioProcessor, lastCall.packet, 1)
    IN /\ lastCall.decodedSamples = fresh.decodedSamples
       /\ ap.adpcmPredicted = fresh.p.adpcmPredicted
       /\ ap.adpcmIndex = fresh.p.adpcmIndex

\* C6 witness: a packet was decoded by a processor whose decoder had been
\* left by an earlier packet in a state other than this packet's header.
C6_Witness ==
  /\ lastCall.made
  /\ lastCall.before.totalPackets >= 1
  /\ lastCall.before.adpcmIndex # GetUint8(lastCall.packet, 4)
  /\ lastCall.before.adpcmIndex # 0
  /\ lastCall.before.adpcmPredicted # GetInt16LE(lastCall.packet, 2)
  /\ Len(lastCall.decodedSamples) = 118

C10_InOrderAndAdvance ==
  /\ LastInOrder => lastCall.samples = lastCall.decodedSamples
  /\ LastAccepted =>
        /\ ap.expectedSeq = (lastCall.seq + 1) % 65536
        /\ ap.expectedSeq \in 0..65535
        /\ Len(lastCall.decodedSamples) = 118
        /\ ap.lastSample = lastCall.decodedSamples[118]

\* C10 witness: the packet numbered 0 arrived right after the packet numbered
\* 65535 and returned its 118 decoded samples.
C10_Witness ==
  /\ history = <<65535, 0>>
  /\ LastInOrder
  /\ Len(lastCall.samples) = 118
  /\ ap.expectedSeq = 1

-----------------------------------------------------------------------------
(* SpecScenario: a fresh AudioProcessor receives the packets of one planned *)
(* list of sequence numbers, in order.                                      *)

Scenarios ==
  { <<0, 1, 3, 4>>, <<0, 1, 2, 3>>, <<0, 3, 4, 5>>, <<1, 0, 1, 2>>,
    <<5, 6, 8, 9>>, <<65534, 65535, 1, 2>> }

InitScenario ==
  /\ DevInit /\ EnvInit /\ DemuxInit /\ SessInit /\ SinkInit /\ MoreInit
  /\ ap = NewAudioProcessor
  /\ lastCall = NoCall
  /\ history = << >>
  /\ emitted = 0
  /\ plan \in Scenarios

DeliverPlanned(content, rnd) ==
  /\ plan # << >>
  /\ DeliverPacket(Head(plan), content, rnd)
  /\ plan' = Tail(plan)
  /\ UNCHANGED <<devVars, envVars, demuxVars, sessVars, sinkVars, moreVars>>

NextScenario ==
  \E content \in PacketContents, rnd \in RandomDraws : DeliverPlanned(content, rnd)

SpecScenario == InitScenario /\ [][NextScenario]_vars

-----------------------------------------------------------------------------
(* SpecInterp: _interpolateGap as a function of this.lastSample, the gap    *)
(* size, the first sample of the next packet and the random draw.           *)

MaxInterpGap == 2       \* largest gapPackets given to _interpolateGap

\* 16-bit samples: the extremes, their neighbours and values in between
InterpSamples == {-32768, -32767, -1000, 0, 1000, 32766, 32767}
InterpDraws   == {-1, 0, 1}

InitInterp ==
  /\ DevInit /\ EnvInit /\ ReconInit /\ DemuxInit /\ SessInit /\ SinkInit /\ MoreInit
  /\ \E s \in InterpSamples : ap = [NewAudioProcessor EXCEPT !.lastSample = s]

\* one call of _interpolateGap on the object; the object is left as it is
Interpolate(gapPackets, nextFirstSample, rnd) ==
  /\ ~lastCall.made
  /\ lastCall' = [NoCall EXCEPT !.made = TRUE, !.before = ap,
                                !.samples = interpolateGap(ap, gapPackets, nextFirstSample, rnd)]
  /\ history' = <<gapPackets, nextFirstSample, rnd>>
  /\ UNCHANGED <<ap, plan, emitted, devVars, envVars, demuxVars, sessVars, sinkVars, moreVars>>

NextInterp ==
  \E gapPackets \in 1..MaxInterpGap, nextFirstSample \in InterpSamples, rnd \in InterpDraws :
     Interpolate(gapPackets, nextFirstSample, rnd)

SpecInterp == InitInterp /\ [][NextInterp]_vars

\* C11: every sample _interpolateGap synthesizes is an integer within
\* [-32768, 32767], whatever lastSample, the next packet's first sample, the
\* gap size and the random comfort-noise term are; it synthesizes
\* gapPackets * 118 of them.
C11_InterpolatedInRange ==
  lastCall.made =>
    /\ Len(lastCall.samples) = history[1] * SAMPLES_PER_PACKET
    /\ \A i \in 1..Len(lastCall.samples) : lastCall.samples[i] \in -32768..32767

\* C11 witness: a gap of two packets filled from lastSample 32767 down to
\* -32768 with the noise at its positive extreme: the first sample, which
\* the noise lifts above the start, is held at 32767.
C11_Witness ==
  /\ lastCall.made
  /\ history = <<2, -32768, 1>>
  /\ lastCall.before.lastSample = 32767
  /\ Len(lastCall.samples) = 236
  /\ lastCall.samples[1] = 32767
  /\ lastCall.samples[236] < -32000

-----------------------------------------------------------------------------
(* Host: the frame demultiplexer of web/serial.js.  A Uint8Array is a       *)
(* sequence of bytes; offsets are counted from 0 as in the code.            *)

HEADER_MARKER       == 202      \* 0xca
THERMAL_TYPE        == 1
AUDIO_TYPE          == 2
THERMAL_FRAME_SIZE  == 1538
AUDIO_FRAME_SIZE    == 66
THERMAL_PIXEL_COUNT == 768
NO_START_KEEP       == 10       \* slice(-10) of line 221
OVERFLOW_LIMIT      == 5000     \* line 271
OVERFLOW_KEEP       == 1000     \* slice(-1000) of line 274

\* the least element of a non-empty set of integers
Least(S)    == CHOOSE i \in S : \A j \in S : i <= j
Greatest(S) == CHOOSE i \in S : \A j \in S : i >= j

\* Uint8Array.slice(start), slice(start, end) and slice(-n): indices past the
\* ends are clamped
SliceFrom_KeepsAll(buffer, start) == buffer

SliceFrom(buffer, start) == SubSeq(buffer, start + 1, Len(buffer))
Slice(buffer, start, end) == SubSeq(buffer, start + 1, Min(end, Len(buffer)))
SliceLast_KeepsAll(buffer, n) == buffer

SliceLast_OneShort(buffer, n) ==
  SubSeq(buffer, Max(Len(buffer) - n, 0) + 1, Len(buffer) - 1)      \* slice(-n, -1)

SliceLast(buffer, n) == SubSeq(buffer, Max(Len(buffer) - n, 0) + 1, Len(buffer))

\* buffer[off]; a read past the end gives undefined, which | and << take as 0
ByteAt(buffer, off) == IF off < Len(buffer) THEN buffer[off + 1] ELSE 0

\* lines 124-129: 'b' for "btn:", 'd' for "debug:"
IsTextStart_OnlyB(byte) == byte = 98

IsTextStart(byte) == byte = 98 \/ byte = 100

\* lines 116-122
IsBinaryStart_ThermalOnly(buffer, i) ==
  /\ buffer[i + 1] = HEADER_MARKER
  /\ i + 1 < Len(buffer)
  /\ buffer[i + 2] = THERMAL_TYPE

IsBinaryStart(buffer, i) ==
  /\ buffer[i + 1] = HEADER_MARKER
  /\ i + 1 < Len(buffer)
  /\ buffer[i + 2] = THERMAL_TYPE \/ buffer[i + 2] = AUDIO_TYPE

findMessageStart_FirstByte(buffer) ==
  LET starts == { i \in 0..(Len(buffer) - 1) :
                    IsBinaryStart(buffer, i) \/ IsTextStart(buffer[i + 1]) }
  IN IF starts = {} THEN -1 ELSE 0

findMessageStart(buffer) ==
  LET starts == { i \in 0..(Len(buffer) - 1) :
                    IsBinaryStart(buffer, i) \/ IsTextStart(buffer[i + 1]) }
  IN IF starts = {} THEN -1 ELSE Least(starts)

\* TextDecoder.decode: a byte below 0x80 is the character of that code; a
\* larger byte stands for the replacement character made of it, which is
\* neither white space nor a digit.  String.trim:
IsSpace(c) == c \in {9, 10, 11, 12, 13, 32}
IsDigit(c) == c \in 48..57

Trim(str) ==
  LET kept == { i \in 1..Len(str) : ~IsSpace(str[i]) }
  IN IF kept = {} THEN << >> ELSE SubSeq(str, Least(kept), Greatest(kept))

\* lines 95-106
tryParseTextLine_ConsumesAll(buffer) ==
  LET newlines == { i \in 0..(Len(buffer) - 1) : buffer[i + 1] = 10 }
  IN IF newlines = {} THEN [found |-> FALSE, line |-> << >>, consumed |-> 0]
     ELSE LET i == Least(newlines)
          IN [found |-> TRUE, line |-> Trim(Slice(buffer, 0, i)), consumed |-> Len(buffer)]

tryParseTextLine_KeepsTerminator(buffer) ==
  LET newlines == { i \in 0..(Len(buffer) - 1) : buffer[i + 1] = 10 }
  IN IF newlines = {} THEN [found |-> FALSE, line |-> << >>, consumed |-> 0]
     ELSE LET i == Least(newlines)
          IN [found |-> TRUE, line |-> Trim(Slice(buffer, 0, i)), consumed |-> i]

tryParseTextLine(buffer) ==
  LET newlines == { i \in 0..(Len(buffer) - 1) : buffer[i + 1] = 10 }
  IN IF newlines = {} THEN [found |-> FALSE, line |-> << >>, consumed |-> 0]
     ELSE LET i == Least(newlines)
          IN [found |-> TRUE, line |-> Trim(Slice(buffer, 0, i)), consumed |-> i + 1]

\* lines 138-151: the argument of thermalDataCallback, in tenths of a degree
parseThermalFrame_BigEndian(frameData) ==
  [type |-> "thermal",
   data |-> [i \in 1..THERMAL_PIXEL_COUNT |->
               256 * ByteAt(frameData, 2 + (i - 1) * 2) + ByteAt(frameData, 2 + (i - 1) * 2 + 1)]]

parseThermalFrame(frameData) ==
  [type |-> "thermal",
   data |-> [i \in 1..THERMAL_PIXEL_COUNT |->
               ByteAt(frameData, 2 + (i - 1) * 2) + 256 * ByteAt(frameData, 2 + (i - 1) * 2 + 1)]]

\* lines 158-165: the argument of audioDataCallback
parseAudioFrame(frameData) ==
  [type |-> "audio", data |-> Slice(frameData, 2, 66)]

\* the characters of "btn:" and "debug:"
BTN_PREFIX   == << 98, 116, 110, 58 >>
DEBUG_PREFIX == << 100, 101, 98, 117, 103, 58 >>

StartsWith(str, prefix) ==
  Len(str) >= Len(prefix) /\ SubSeq(str, 1, Len(prefix)) = prefix

\* the number written by the digits str[from..to]
RECURSIVE DigitsValue(_, _, _)
DigitsValue(str, from, to) ==
  IF to < from THEN 0 ELSE 10 * DigitsValue(str, from, to - 1) + (str[to] - 48)

\* parseInt(str, 10): white space, an optional sign, then the digits up to
\* the first other character; NaN when there is no digit
ParseInt(str) ==
  LET nonSpace == { i \in 1..Len(str) : ~IsSpace(str[i]) }
      from     == IF nonSpace = {} THEN Len(str) + 1 ELSE Least(nonSpace)
      signed   == from <= Len(str) /\ str[from] \in {43, 45}
      negative == from <= Len(str) /\ str[from] = 45
      first    == IF signed THEN from + 1 ELSE from
      stops    == { i \in first..Len(str) : ~IsDigit(str[i]) }
      last     == IF stops = {} THEN Len(str) ELSE Least(stops) - 1
  IN IF last < first THEN [isNaN |-> TRUE, value |-> 0]
     ELSE [isNaN |-> FALSE,
           value |-> (IF negative THEN -1 ELSE 1) * DigitsValue(str, first, last)]

\* lines 170-179: what the line makes the host do, as a list of at most one
\* entry: the call of buttonDataCallback or the line printed on the console
processTextLine(line) ==
  IF StartsWith(line, BTN_PREFIX)
  THEN LET state == ParseInt(SliceFrom(line, 4))
       IN IF ~state.isNaN THEN << [type |-> "btn", data |-> << state.value >>] >> ELSE << >>
  ELSE IF StartsWith(line, DEBUG_PREFIX)
  THEN << [type |-> "console", data |-> SliceFrom(line, 6)] >>
  ELSE << >>

\* lines 238 and 248: the whole frame is in the buffer
IsComplete_Always(buffer, frameSize) == TRUE

IsComplete(buffer, frameSize) == ~(Len(buffer) < frameSize)

\* lines 241 and 251: the frame's bytes
TakeFrame_DropsLast(buffer, frameSize) == Slice(buffer, 0, frameSize - 1)

TakeFrame(buffer, frameSize) == Slice(buffer, 0, frameSize)

\* lines 216-276: one pass through the body of the while loop on a non-empty
\* buffer: the buffer it leaves, the callbacks it makes, and whether the loop
\* goes on (`continue') or stops (`break')
LoopBody(buffer) ==
  LET startIdx == findMessageStart(buffer)
  IN
  IF startIdx = -1
  THEN [dataBuffer |-> IF Len(buffer) > NO_START_KEEP
                       THEN SliceLast(buffer, NO_START_KEEP) ELSE buffer,
        out |-> << >>, again |-> FALSE]
  ELSE
  LET buf == IF startIdx > 0 THEN SliceFrom(buffer, startIdx) ELSE buffer
      firstByte == buf[1]
  IN
  IF firstByte = HEADER_MARKER /\ Len(buf) >= 2
  THEN LET type == buf[2]
       IN IF type = THERMAL_TYPE
          THEN IF ~IsComplete(buf, THERMAL_FRAME_SIZE)
               THEN [dataBuffer |-> buf, out |-> << >>, again |-> FALSE]
               ELSE [dataBuffer |-> SliceFrom(buf, THERMAL_FRAME_SIZE),
                     out |-> << parseThermalFrame(TakeFrame(buf, THERMAL_FRAME_SIZE)) >>,
                     again |-> TRUE]
          ELSE IF type = AUDIO_TYPE
          THEN IF ~IsComplete(buf, AUDIO_FRAME_SIZE)
               THEN [dataBuffer |-> buf, out |-> << >>, again |-> FALSE]
               ELSE [dataBuffer |-> SliceFrom(buf, AUDIO_FRAME_SIZE),
                     out |-> << parseAudioFrame(TakeFrame(buf, AUDIO_FRAME_SIZE)) >>,
                     again |-> TRUE]
          ELSE [dataBuffer |-> SliceFrom(buf, 1), out |-> << >>, again |-> TRUE]
  ELSE
  LET textResult == tryParseTextLine(buf)
  IN
  IF textResult.found
  THEN [dataBuffer |-> SliceFrom(buf, textResult.consumed),
        out |-> processTextLine(textResult.line), again |-> TRUE]
  ELSE [dataBuffer |-> IF Len(buf) > OVERFLOW_LIMIT
                       THEN SliceLast(buf, OVERFLOW_KEEP) ELSE buf,
        out |-> << >>, again |-> FALSE]

\* what processBuffer returns after a pass r that made the callbacks out so far
RECURSIVE processBuffer(_, _)
AfterPass(r, out) ==
  IF r.again THEN processBuffer(r.dataBuffer, out \o r.out)
  ELSE [dataBuffer |-> r.dataBuffer, out |-> out \o r.out]

\* lines 214-278: processBuffer on the buffer, with the callbacks made so far
\* in this call
processBuffer(buffer, out) ==
  IF ~(Len(buffer) > 0) THEN [dataBuffer |-> buffer, out |-> out]
  ELSE AfterPass(LoopBody(buffer), out)

-----------------------------------------------------------------------------
(* SpecDemux: the device writes whole frames to the serial link, garbage    *)
(* bytes get in between them, and the host reads the bytes in chunks.       *)

MaxItems == 3           \* frames and garbage bytes put on the wire

ThermalPixels == {266, 100}     \* 26.6 is the bytes 0x0a 0x01, 10.0 is 0x64 0x00
ButtonStates  == {1}
GarbageBytes  == {0, 202, 1, 98, 10}
ReadSizes     == {1, 2, 40}     \* sizes of the chunks that end inside the pending bytes

\* thermalSendFrame with every pixel at v tenths of a degree
ThermalFrame(v) ==
  << 202, 1 >> \o [i \in 1..(2 * THERMAL_PIXEL_COUNT) |->
                     IF i % 2 = 1 THEN v % 256 ELSE (v \div 256) % 256]

\* the frame audioProcessSample sends: 0xCA 0x02 and the 64-byte packet
AudioFrame(seq, predicted, index, fill) ==
  << 202, 2 >> \o MakePacket(seq, predicted, index, fill)

\* buttonSendState: "btn:<state>" and the "\r\n" of println, for one digit
ButtonLine(state) == BTN_PREFIX \o << 48 + state, 13, 10 >>

\* Serial.println("debug:MLX90640 OK")
DEBUG_TEXT == << 77, 76, 88, 57, 48, 54, 52, 48, 32, 79, 75 >>
DebugLine  == DEBUG_PREFIX \o DEBUG_TEXT \o << 13, 10 >>

\* the frames of the model: their bytes and the callback they stand for
Frames ==
  { [bytes |-> ThermalFrame(v),
     callback |-> [type |-> "thermal", data |-> [i \in 1..THERMAL_PIXEL_COUNT |-> v]]]
      : v \in ThermalPixels }
  \cup
  { [bytes |-> AudioFrame(458, -300, 40, 98),
     callback |-> [type |-> "audio", data |-> MakePacket(458, -300, 40, 98)]] }
  \cup
  { [bytes |-> ButtonLine(b), callback |-> [type |-> "btn", data |-> << b >>]]
      : b \in ButtonStates }
  \cup
  { [bytes |-> DebugLine, callback |-> [type |-> "console", data |-> DEBUG_TEXT]] }

InitDemux ==
  /\ DevInit /\ EnvInit /\ ReconInit /\ DemuxInit /\ SessInit /\ SinkInit /\ MoreInit
  /\ ap = NewAudioProcessor

\* the device writes one frame, whole (serialWriteProtected)
EmitFrame(f) ==
  /\ nItems < MaxItems
  /\ wire' = wire \o f.bytes
  /\ sent' = Append(sent, f.callback)
  /\ nItems' = nItems + 1
  /\ lastGarbage' = -1
  /\ UNCHANGED <<dataBuffer, callbacks, cut, noise, lastRun, devVars, envVars, ap, reconVars,
               sessVars, sinkVars, moreVars>>

\* one garbage byte gets on the link.  The garbage is "dirty" once it holds
\* a 'b' or a 'd', or 0xCA directly followed by 0x01 or 0x02; garbage that is
\* not dirty is "marker" once it holds a 0xCA, and "clean" without one.
EmitGarbage(g) ==
  /\ nItems < MaxItems
  /\ wire' = Append(wire, g)
  /\ nItems' = nItems + 1
  /\ lastGarbage' = g
  /\ noise' = IF noise = "dirty" \/ g \in {98, 100}
                 \/ (lastGarbage = 202 /\ g \in {1, 2})
              THEN "dirty"
              ELSE IF noise = "marker" \/ g = 202 THEN "marker" ELSE "clean"
  /\ UNCHANGED <<dataBuffer, callbacks, cut, sent, lastRun, devVars, envVars, ap, reconVars,
               sessVars, sinkVars, moreVars>>

\* lines 187-196: reader.read() returns the next k pending bytes, which are
\* appended to dataBuffer, and processBuffer runs
Read(k) ==
  /\ k \in 1..Len(wire)
  /\ k < Len(wire) => ~cut
  /\ LET value == SubSeq(wire, 1, k)
         given == dataBuffer \o value
         r     == processBuffer(given, << >>)
     IN /\ dataBuffer' = r.dataBuffer
        /\ callbacks' = callbacks \o r.out
        /\ lastRun' = [made |-> TRUE, buffer |-> given, before |-> Len(callbacks)]
  /\ wire' = SubSeq(wire, k + 1, Len(wire))
  /\ cut' = (k < Len(wire))
  /\ UNCHANGED <<nItems, sent, noise, lastGarbage, devVars, envVars, ap, reconVars,
               sessVars, sinkVars, moreVars>>

NextDemux ==
  \/ \E f \in Frames : EmitFrame(f)
  \/ \E g \in GarbageBytes : EmitGarbage(g)
  \/ \E k \in ReadSizes \cup {Len(wire)} : Read(k)

SpecDemux == InitDemux /\ [][NextDemux]_vars

\* the last processBuffer call: the first message start of the buffer it was
\* given, the bytes from that start on, and the callbacks it made
RunStart  == findMessageStart(lastRun.buffer)
RunHead   == SliceFrom(lastRun.buffer, RunStart)
RunOut    == SubSeq(callbacks, lastRun.before + 1, Len(callbacks))
RunBinary == lastRun.made /\ RunStart >= 0 /\ RunHead[1] = 202
RunSize   == IF RunHead[2] = 1 THEN 1538 ELSE 66

\* the callback a complete binary frame stands for
CallbackOf(frame) ==
  IF frame[2] = 1
  THEN [type |-> "thermal",
        data |-> [i \in 1..768 |-> frame[2 * i + 1] + 256 * frame[2 * i + 2]]]
  ELSE [type |-> "audio", data |-> SubSeq(frame, 3, 66)]

\* s is the beginning of t
IsPrefix(s, t) == Len(s) <= Len(t) /\ SubSeq(t, 1, Len(s)) = s

\* buf begins with a complete binary frame
HeadIsCompleteFrame(buf) ==
  /\ Len(buf) >= 2
  /\ buf[1] = 202
  /\ buf[2] \in {1, 2}
  /\ Len(buf) >= (IF buf[2] = 1 THEN 1538 ELSE 66)

\* C1 as stated: whatever garbage bytes lie between the frames, the
\* callbacks made are those of the frames written, in the order written, all
\* of them once every byte has been read, and dataBuffer stays bounded.
C1_FramesThroughAnyGarbage ==
  /\ IsPrefix(callbacks, sent)
  /\ wire = << >> => callbacks = sent
  /\ Len(dataBuffer) <= 5000

\* C1: as long as the garbage between the frames holds no 'b' (0x62), no 'd'
\* (0x64) and no 0xCA directly followed by 0x01 or 0x02, the callbacks made
\* are those of the frames written, in the order written, all of them once
\* every byte has been read; dataBuffer never holds more than 5000 bytes
\* after a processBuffer call, whatever the garbage.
C1_FramesThroughCleanGarbage ==
  /\ noise # "dirty" =>
       /\ IsPrefix(callbacks, sent)
       /\ wire = << >> => callbacks = sent
  /\ Len(dataBuffer) <= 5000

\* C1 witness: a garbage byte has come before the last of two frames, every
\* byte has been read, in more than one chunk, and both frames were
\* dispatched.
C1_Witness ==
  /\ noise = "clean"
  /\ nItems = 3
  /\ Len(sent) = 2
  /\ lastGarbage = -1
  /\ wire = << >>
  /\ lastRun.made
  /\ lastRun.before = 1
  /\ callbacks = sent

\* the frame of the model that a callback stands for, and the bytes the
\* device wrote for a list of callbacks
FrameOf(callback) == CHOOSE f \in Frames : f.callback = callback

RECURSIVE StreamOf(_)
StreamOf(cbs) ==
  IF cbs = << >> THEN << >> ELSE FrameOf(Head(cbs)).bytes \o StreamOf(Tail(cbs))

\* C35: of a stream of well-formed frames only (thermal, audio, btn: and
\* debug: lines), the callbacks made after the chunks read so far are the
\* first of those that processBuffer makes when it is given the whole
\* stream in one chunk, and all of them once every byte was read: the
\* sequence of callbacks does not depend on how the stream is cut.
C35_ChunkingIndependent ==
  noise = "none" =>
    LET whole == processBuffer(StreamOf(sent), << >>)
    IN /\ IsPrefix(callbacks, whole.out)
       /\ wire = << >> => (callbacks = whole.out /\ dataBuffer = whole.dataBuffer)

\* C35 witness: three frames were written, a thermal frame first; a chunk
\* has ended inside the second frame, whose first bytes wait in dataBuffer
\* after the callback of the first frame was made.
C35_Witness ==
  /\ noise = "none"
  /\ Len(sent) = 3
  /\ sent[1].type = "thermal"
  /\ cut
  /\ wire # << >>
  /\ lastRun.made
  /\ Len(callbacks) = 1
  /\ dataBuffer # << >>
  /\ IsPrefix(dataBuffer, FrameOf(sent[2]).bytes)

\* C36: as long as the garbage between the frames holds none of the bytes
\* 0x62, 0x64 and 0xCA, the callbacks made are those of the frames written,
\* each once and in the order written, all of them once every byte was
\* read.
C36_FramesThroughMarkerFreeGarbage ==
  noise \in {"none", "clean"} =>
    /\ IsPrefix(callbacks, sent)
    /\ wire = << >> => callbacks = sent
    /\ Len(callbacks) <= Len(sent)

\* C36 witness: two garbage bytes free of 0x62, 0x64 and 0xCA came before an
\* audio frame, every byte was read, and the one callback made is the
\* frame's.
C36_Witness ==
  /\ noise = "clean"
  /\ nItems = 3
  /\ Len(sent) = 1
  /\ lastGarbage = -1
  /\ sent[1].type = "audio"
  /\ wire = << >>
  /\ callbacks = sent

\* C2: when the first message start of the buffer is a binary marker with
\* fewer bytes from the marker on than the frame's length, processBuffer
\* makes no callback and dataBuffer is the bytes from the marker on.
C2_PartialFrameKept ==
  (RunBinary /\ Len(RunHead) < RunSize) =>
     /\ RunOut = << >>
     /\ dataBuffer = RunHead

\* C2 witness: processBuffer was given garbage followed by the first bytes of
\* a thermal frame.
C2_Witness ==
  /\ RunBinary
  /\ RunStart > 0
  /\ RunHead[2] = 1
  /\ Len(RunHead) > 2
  /\ Len(RunHead) < 1538
  /\ dataBuffer = RunHead

\* C3: when the first message start of the buffer is a binary marker with at
\* least the frame's length from the marker on, the first callback
\* processBuffer makes is that of the 1538 or 66 bytes from the marker; if a
\* complete binary frame follows these bytes directly, the second callback is
\* that frame's; and dataBuffer does not begin with a complete binary frame
\* when processBuffer returns.
C3_CompleteFramesDispatched ==
  /\ (RunBinary /\ Len(RunHead) >= RunSize) =>
        /\ Len(RunOut) >= 1
        /\ RunOut[1] = CallbackOf(SubSeq(RunHead, 1, RunSize))
        /\ LET rest == SubSeq(RunHead, RunSize + 1, Len(RunHead))
           IN /\ HeadIsCompleteFrame(rest) =>
                   /\ Len(RunOut) >= 2
                   /\ RunOut[2] = CallbackOf(rest)
              /\ Len(RunOut) = 1 => dataBuffer = processBuffer(rest, << >>).dataBuffer
              /\ rest = << >> => (dataBuffer = << >> /\ Len(RunOut) = 1)
  /\ lastRun.made => ~HeadIsCompleteFrame(dataBuffer)

\* C3 witness: processBuffer was given a thermal frame directly followed by
\* an audio frame, and made the two callbacks in that order.
C3_Witness ==
  /\ RunBinary
  /\ Len(lastRun.buffer) = 1538 + 66
  /\ Len(RunOut) = 2
  /\ RunOut[1].type = "thermal"
  /\ RunOut[2].type = "audio"
  /\ dataBuffer = << >>

-----------------------------------------------------------------------------
(* SpecChunks: reader.read() hands the host whole chunks, among them        *)
(* chunks that are not what the device writes: stray markers, unterminated  *)
(* lines, a button line with a value the device never sends.                *)

MaxChunks == 3          \* chunks read

\* "btn:2\n", its two halves, and "btn:7\n"
BtnTwo   == BTN_PREFIX \o << 50, 10 >>
BtnHead  == BTN_PREFIX
BtnTail  == << 50, 10 >>
BtnSeven == BTN_PREFIX \o << 55, 10 >>

\* an audio frame, and what follows its first byte
AudioWhole == AudioFrame(458, -300, 40, 98)
AudioTail  == SliceFrom(AudioWhole, 1)

\* twelve bytes without a message start, the last one 0xCA
NoStartTail == << 1, 2, 3, 4, 5, 6, 7, 8, 9, 10, 11, 202 >>

\* a stray 0xCA directly in front of an audio frame, and 0xCA 0x03 directly
\* in front of a button line
StrayMarkerAudio  == << 202 >> \o AudioWhole
UnknownTypeButton == << 202, 3 >> \o BtnTwo

\* "debug:" and 4995 bytes without a line terminator, 5001 bytes in all
Flood == DEBUG_PREFIX \o [i \in 1..(OVERFLOW_LIMIT - 5) |-> 0]

\* the first 1000 bytes of a thermal frame
ThermalHead == Slice(ThermalFrame(100), 0, 1000)

\* three messages in one chunk
Burst == BtnTwo \o AudioWhole \o BtnSeven

\* a debug line with an audio frame behind it, and the same bytes cut inside
\* the line
DebugThenAudio == DebugLine \o AudioWhole
DebugHead      == Slice(DebugLine, 0, 9)
DebugTailAudio == SliceFrom(DebugThenAudio, 9)

Chunks == { BtnTwo, BtnHead, BtnTail, BtnSeven, AudioWhole, AudioTail, NoStartTail,
            StrayMarkerAudio, UnknownTypeButton, Flood, ThermalHead, Burst,
            DebugThenAudio, DebugHead, DebugTailAudio }

InitChunks ==
  /\ DevInit /\ EnvInit /\ ReconInit /\ DemuxInit /\ SessInit /\ SinkInit /\ MoreInit
  /\ ap = NewAudioProcessor

\* line 187: reader.read() resolves with the chunk
Arrive(chunk) ==
  /\ wire = << >>
  /\ nItems < MaxChunks
  /\ wire' = chunk
  /\ nItems' = nItems + 1
  /\ UNCHANGED <<dataBuffer, callbacks, cut, sent, noise, lastGarbage, lastRun,
                 devVars, envVars, ap, reconVars, sessVars, sinkVars, moreVars>>

\* lines 193-196 on the whole chunk
NextChunks ==
  \/ \E chunk \in Chunks : Arrive(chunk)
  \/ Read(Len(wire))

SpecChunks == InitChunks /\ [][NextChunks]_vars

\* buf begins with a text start and holds no line terminator
TextWaiting(buf) ==
  /\ IsTextStart(buf[1])
  /\ \A i \in 1..Len(buf) : buf[i] # 10

RunTextWaiting == lastRun.made /\ RunStart >= 0 /\ TextWaiting(RunHead)

\* C15: after every processBuffer call dataBuffer holds at most 5000 bytes;
\* when the call found a text start with more than 5000 bytes and no line
\* terminator after it, it kept the newest 1000 bytes and dropped the older
\* ones.
C15_BufferBounded ==
  /\ Len(dataBuffer) <= 5000
  /\ (RunTextWaiting /\ Len(RunHead) > 5000) =>
        /\ Len(dataBuffer) = 1000
        /\ dataBuffer = SubSeq(RunHead, Len(RunHead) - 999, Len(RunHead))

\* C15 witness: a call was given 5005 bytes, an unterminated "btn:" and the
\* flood after it, and left 1000.
C15_Witness ==
  /\ lastRun.made
  /\ Len(lastRun.buffer) = 5005
  /\ RunTextWaiting
  /\ Len(dataBuffer) = 1000

\* the buffer the next processBuffer call is given
NextGiven == dataBuffer \o wire

\* every pass of the loop over buf either stops or leaves a shorter buffer
RECURSIVE EveryPassShortens(_)
PassShortens(buf, r) ==
  ~r.again \/ (Len(r.dataBuffer) < Len(buf) /\ EveryPassShortens(r.dataBuffer))

EveryPassShortens(buf) == Len(buf) > 0 => PassShortens(buf, LoopBody(buf))

\* the number of passes the loop makes over buf, counted up to n
RECURSIVE Passes(_, _)
PassesAfter(r, n) == IF r.again THEN Passes(r.dataBuffer, n - 1) + 1 ELSE 1

Passes(buf, n) == IF n = 0 \/ Len(buf) = 0 THEN 0 ELSE PassesAfter(LoopBody(buf), n)

\* C16: processBuffer terminates on every buffer: each pass of its loop
\* either stops the loop or leaves a strictly shorter buffer.
C16_EveryPassShortens == EveryPassShortens(NextGiven)

\* C16 witness: a call is about to be given an unterminated "btn:" and three
\* messages after it, on which the loop makes three passes, each shortening
\* the buffer and going on.
C16_Witness ==
  /\ wire = Burst
  /\ dataBuffer = BtnHead
  /\ Passes(NextGiven, 5) = 3

\* the last processBuffer call was given a buffer without a message start
RunNoStart == lastRun.made /\ Len(lastRun.buffer) > 0 /\ RunStart = -1

\* C17: when the buffer holds no message start, processBuffer makes no
\* callback and keeps the last 10 bytes of the buffer (all of it when it is
\* shorter), so a 0xCA that ends the buffer is kept; and when the bytes that
\* follow the first byte of an audio frame arrive after such a 0xCA, the
\* frame is dispatched.
C17_NoStartKeepsTail ==
  /\ RunNoStart =>
       /\ RunOut = << >>
       /\ Len(dataBuffer) = Min(10, Len(lastRun.buffer))
       /\ \A i \in 1..Len(dataBuffer) :
            dataBuffer[i] = lastRun.buffer[Len(lastRun.buffer) - Len(dataBuffer) + i]
       /\ Last(lastRun.buffer) = 202 => Last(dataBuffer) = 202
  /\ (lastRun.made
        /\ Len(lastRun.buffer) = 10 + Len(AudioTail)
        /\ SubSeq(lastRun.buffer, 1, 10) = SubSeq(NoStartTail, 3, 12)
        /\ SubSeq(lastRun.buffer, 11, Len(lastRun.buffer)) = AudioTail) =>
       /\ RunOut = << [type |-> "audio", data |-> SubSeq(AudioWhole, 3, 66)] >>
       /\ dataBuffer = << >>

\* C17 witness: twelve bytes without a start, ending in 0xCA, were cut to
\* their last ten, and the next chunk, the rest of an audio frame, made the
\* audio callback.
C17_Witness ==
  /\ lastRun.made
  /\ lastRun.buffer = SubSeq(NoStartTail, 3, 12) \o AudioTail
  /\ Len(callbacks) = 1
  /\ callbacks[1].type = "audio"
  /\ dataBuffer = << >>

\* the callbacks of the messages of the model
AudioCallback == [type |-> "audio", data |-> SubSeq(AudioWhole, 3, 66)]
ButtonCallback(n) == [type |-> "btn", data |-> << n >>]

LinesDispatched ==
  /\ (lastRun.made /\ lastRun.buffer = BtnTwo) =>
        RunOut = << ButtonCallback(2) >> /\ dataBuffer = << >>
  /\ (lastRun.made /\ lastRun.buffer = Burst) =>
        /\ RunOut = << ButtonCallback(2), AudioCallback, ButtonCallback(7) >>
        /\ dataBuffer = << >>

\* C19 as stated: while the line that starts the buffer has no 0x0A
\* terminator no callback is made and nothing is consumed; once the
\* terminator is there exactly the bytes through it are consumed and
\* "btn:<n>" makes the button callback once, with n.
C19_NothingConsumedBeforeTerminator ==
  /\ RunTextWaiting => (RunOut = << >> /\ dataBuffer = RunHead)
  /\ LinesDispatched

\* C19: while the line that starts the buffer has no 0x0A terminator no
\* callback is made, and nothing is consumed as long as the line is at most
\* 5000 bytes long (a longer one is cut to its last 1000 bytes); once the
\* terminator is there exactly the bytes through it are consumed and
\* "btn:<n>" makes the button callback once, with n.
C19_LineWaitsForTerminator ==
  /\ RunTextWaiting =>
       /\ RunOut = << >>
       /\ Len(RunHead) <= 5000 => dataBuffer = RunHead
       /\ Len(RunHead) > 5000 => dataBuffer = SubSeq(RunHead, Len(RunHead) - 999, Len(RunHead))
  /\ LinesDispatched

\* C19 witness: "btn:" arrived and was kept, "2\n" arrived after it, and the
\* button callback was made once, with 2.
C19_Witness ==
  /\ nItems = 2
  /\ lastRun.made
  /\ lastRun.buffer = BtnTwo
  /\ lastRun.before = 0
  /\ callbacks = << ButtonCallback(2) >>
  /\ dataBuffer = << >>

\* C20: every call of the button callback carries an integer in {0, 1, 2},
\* whatever bytes the host reads.
C20_ButtonStateInRange ==
  \A i \in 1..Len(callbacks) :
     callbacks[i].type = "btn" => callbacks[i].data[1] \in {0, 1, 2}

\* the offset of the first line terminator of buf, -1 when it has none
FirstNewline(buf) ==
  LET newlines == { i \in 0..(Len(buf) - 1) : buf[i + 1] = 10 }
  IN IF newlines = {} THEN -1 ELSE Least(newlines)

\* what the last call did with a buffer whose first message is a "debug:"
\* line: with the terminator in the buffer the line goes to the console only
\* and the call makes the callbacks and leaves the bytes it would on the
\* bytes behind the line alone; without the terminator the line is kept,
\* whole, when it is no longer than limit
DebugLineSkipped(head, nl, limit) ==
  /\ nl >= 0 =>
       /\ Len(RunOut) >= 1
       /\ RunOut[1].type = "console"
       /\ Tail(RunOut) = processBuffer(SliceFrom(head, nl + 1), << >>).out
       /\ dataBuffer = processBuffer(SliceFrom(head, nl + 1), << >>).dataBuffer
  /\ (nl = -1 /\ Len(head) <= limit) => (RunOut = << >> /\ dataBuffer = head)

RunDebug == lastRun.made /\ RunStart >= 0 /\ StartsWith(RunHead, DEBUG_PREFIX)

-----------------------------------------------------------------------------
(* SpecSession: the user connects and disconnects the serial port and the   *)
(* device can be unplugged; while readSerialData waits in reader.read() the *)
(* chunks read go through processBuffer, and every audio frame found goes   *)
(* to the application's one AudioProcessor (main.js: setAudioDataCallback,  *)
(* _handleAudioData).  connectSerial, readSerialData and disconnectSerial   *)
(* are async functions: each is an action per stretch between two awaits.   *)
(* The SerialPort behaves as the Web Serial API lays down: port.readable is *)
(* a new stream whenever the port is open and has none, reader.cancel()     *)
(* ends the stream, and port.close() rejects while the stream is locked.    *)

MaxSessions      == 2   \* connectSerial calls
MaxSessionChunks == 2   \* chunks read over all sessions
MaxReaders       == 4   \* readers acquired over all sessions
MaxDisconnects   == 2   \* disconnectSerial calls

\* the audio frames the device sends in the model, by sequence number
SessionSeqs   == {0, 1, 7}
SessionFrame(seq) == AudioFrame(seq, -300, 40, 60)

\* 0xCA 0x02, then seq = 0, predictor = 0, stepIndex = 0 and 59 zero bytes
ZeroAudioFrame == AudioFrame(0, 0, 0, 0)

\* whole audio frames, the first 30 bytes of one, and a button line
SessionChunks ==
  { SessionFrame(seq) : seq \in SessionSeqs }
  \cup { Slice(SessionFrame(0), 0, 30), BtnTwo, ZeroAudioFrame }

InitSession ==
  /\ DevInit /\ EnvInit /\ ReconInit /\ DemuxInit /\ SessInit /\ SinkInit /\ MoreInit
  /\ ap = NewAudioProcessor            \* main.js line 39

\* port.readable: the SerialPort's stream when it has one, a new stream
\* (numbered after the last one) when the port is open, else null (0).  A
\* stream that was cancelled or failed is dropped by the port at once.
PortReadable ==
  IF stream.id # 0 THEN stream.id
  ELSE IF portOpened THEN Len(promises) + 1 ELSE 0

\* serial.js lines 183-206: one pass of the while loop of readSerialData up to
\* its await: getReader() locks stream n, the inner async function starts and
\* waits in reader.read(), and readSerialData awaits the function's promise
AcquireReader(n) ==
  /\ stream' = [id |-> n, locked |-> TRUE]
  /\ reader' = n
  /\ readableStreamClosed' = n
  /\ inner' = [id |-> n, pc |-> "reading"]
  /\ promises' = IF n > Len(promises) THEN Append(promises, "pending")
                 ELSE [promises EXCEPT ![n] = "pending"]
  /\ loop' = [pc |-> "waiting", on |-> n]

\* serial.js lines 38-54 when requestPort and open succeed (the port is not
\* open yet): readSerialData is started and runs up to its first await
\* (main.js 430-438 only updates the page)
connectSerial ==
  /\ ~portOpened
  /\ sessions < MaxSessions
  /\ Len(promises) < MaxReaders
  /\ loop.pc # "waiting"
  /\ inner.pc # "resolved"
  /\ port' = "open"
  /\ portOpened' = TRUE
  /\ sessions' = sessions + 1
  /\ AcquireReader(Len(promises) + 1)
  /\ cancelSeen' = "none"
  /\ disc' = [disc EXCEPT !.returned = IF @ = "pending" THEN @ ELSE "none"]
  /\ UNCHANGED <<demuxVars, ap, reconVars, devVars, envVars, sinkVars, thermVars, appVars,
                 raceVars>>

\* the device is unplugged: the port is closed, its stream fails and a
\* pending reader.read() rejects
DeviceLost ==
  /\ portOpened
  /\ portOpened' = FALSE
  /\ stream' = NoStream
  /\ inner' = IF inner.pc = "reading" THEN [inner EXCEPT !.pc = "resolved"] ELSE inner
  /\ UNCHANGED <<port, sessions, reader, readableStreamClosed, promises, loop, disc,
                 cancelSeen, demuxVars, ap, reconVars, devVars, envVars, sinkVars,
                 thermVars, appVars,
                 raceVars>>

\* serial.js lines 188-205 after reader.read() resolved with done or rejected:
\* the function leaves its loop and runs `finally': reader.releaseLock() on
\* the module's `reader', which throws when that is null
readSerialData_ReadDone ==
  /\ inner.pc = "resolved"
  /\ inner' = [inner EXCEPT !.pc = "ended"]
  /\ promises' = [promises EXCEPT ![inner.id] = IF reader = 0 THEN "rejected" ELSE "fulfilled"]
  /\ stream' = IF reader # 0 /\ stream.id = reader THEN [stream EXCEPT !.locked = FALSE]
               ELSE stream
  /\ UNCHANGED <<port, sessions, portOpened, reader, readableStreamClosed, loop, disc,
                 cancelSeen, demuxVars, ap, reconVars, devVars, envVars, sinkVars,
                 thermVars, appVars,
                 raceVars>>

\* serial.js lines 182-208 after `await readableStreamClosed': the while
\* condition `port && port.readable' is evaluated again
readSerialData_Resume ==
  /\ loop.pc = "waiting"
  /\ promises[loop.on] # "pending"
  /\ IF promises[loop.on] = "rejected"
     THEN /\ loop' = [loop EXCEPT !.pc = "failed"]
          /\ UNCHANGED <<stream, reader, readableStreamClosed, inner, promises, cancelSeen>>
     ELSE IF port # "null" /\ PortReadable # 0
     THEN /\ PortReadable <= MaxReaders
          /\ AcquireReader(PortReadable)
          /\ cancelSeen' = IF cancelSeen = "cancelled" THEN "reacquired" ELSE cancelSeen
     ELSE /\ loop' = [loop EXCEPT !.pc = "exited"]
          /\ UNCHANGED <<stream, reader, readableStreamClosed, inner, promises, cancelSeen>>
  /\ UNCHANGED <<port, sessions, portOpened, disc, demuxVars, ap, reconVars, devVars,
                 envVars, sinkVars, thermVars, appVars,
                 raceVars>>

\* serial.js lines 65-78: port.close() rejects when the port is not open or
\* its stream is locked; else the port is closed, port set to null and
\* dataBuffer reset.  d is disconnectSerial's state but for what it returns.
ClosePort(d) ==
  IF port = "null"
  THEN /\ dataBuffer' = << >>
       /\ disc' = [d EXCEPT !.returned = "true"]
       /\ UNCHANGED <<port, portOpened, stream>>
  ELSE IF portOpened /\ ~stream.locked
  THEN /\ portOpened' = FALSE
       /\ stream' = NoStream
       /\ port' = "null"
       /\ dataBuffer' = << >>
       /\ disc' = [d EXCEPT !.returned = "true"]
  ELSE /\ disc' = [d EXCEPT !.returned = "false"]
       /\ UNCHANGED <<port, portOpened, stream, dataBuffer>>

\* serial.js lines 56-60: disconnectSerial is called.  reader.cancel() on a
\* reader that holds its stream closes the stream and resolves the pending
\* read with done; on a reader that was released it rejects.
disconnectSerial ==
  /\ disc.pc = "idle"
  /\ disc.calls < MaxDisconnects
  /\ IF reader # 0
     THEN IF stream.id = reader /\ stream.locked
          THEN /\ stream' = NoStream
               /\ inner' = IF inner.pc = "reading" THEN [inner EXCEPT !.pc = "resolved"]
                           ELSE inner
               /\ cancelSeen' = "cancelled"
               /\ disc' = [pc |-> "afterCancel", on |-> 0, calls |-> disc.calls + 1,
                           returned |-> "pending"]
               /\ UNCHANGED <<port, portOpened, dataBuffer>>
          ELSE /\ disc' = [disc EXCEPT !.calls = @ + 1, !.returned = "false"]
               /\ UNCHANGED <<port, portOpened, stream, inner, cancelSeen, dataBuffer>>
     ELSE /\ ClosePort([disc EXCEPT !.calls = @ + 1])
          /\ UNCHANGED <<inner, cancelSeen>>
  /\ UNCHANGED <<sessions, reader, readableStreamClosed, promises, loop,
                 callbacks, wire, cut, nItems, sent, noise, lastGarbage, lastRun,
                 ap, reconVars, devVars, envVars, sinkVars, thermVars, appVars,
                 raceVars>>

\* serial.js line 60, after `await reader.cancel()': the promise that
\* readableStreamClosed holds now is awaited
disconnectSerial_AfterCancel ==
  /\ disc.pc = "afterCancel"
  /\ inner.pc # "resolved"
  /\ disc' = [disc EXCEPT !.pc = "afterClosed", !.on = readableStreamClosed]
  /\ UNCHANGED <<port, sessions, portOpened, stream, reader, readableStreamClosed, inner,
                 promises, loop, cancelSeen, demuxVars, ap, reconVars, devVars, envVars,
                 sinkVars, thermVars, appVars,
                 raceVars>>

\* serial.js lines 61-78, after that promise settled (readSerialData, which
\* awaits the same promise, has gone on before)
disconnectSerial_AfterClosed ==
  /\ disc.pc = "afterClosed"
  /\ promises[disc.on] # "pending"
  /\ ~(loop.pc = "waiting" /\ loop.on = disc.on)
  /\ reader' = 0
  /\ readableStreamClosed' = 0
  /\ ClosePort([disc EXCEPT !.pc = "idle", !.on = 0])
  /\ UNCHANGED <<sessions, inner, promises, loop, cancelSeen,
                 callbacks, wire, cut, nItems, sent, noise, lastGarbage, lastRun,
                 ap, reconVars, devVars, envVars, sinkVars, thermVars, appVars,
                 raceVars>>

\* main.js 467 and 488-489: every audio callback among out[i..] is a
\* parseSamples call on the object p
RECURSIVE HandleAudioData(_, _, _, _)
HandleAudioData(p, out, i, rnd) ==
  IF i > Len(out) THEN p
  ELSE IF out[i].type = "audio"
       THEN HandleAudioData(parseSamples(p, out[i].data, rnd).p, out, i + 1, rnd)
       ELSE HandleAudioData(p, out, i + 1, rnd)

\* the last of these parseSamples calls: its packet, the object before it and
\* what it returned (last when out[i..] holds no audio callback)
RECURSIVE LastAudioCall(_, _, _, _, _)
AudioCallOf(p, packet, r) ==
  [made |-> TRUE, seq |-> GetUint16LE(packet, 0), packet |-> packet, before |-> p,
   samples |-> r.samples, decodedSamples |-> r.decodedSamples]

LastAudioCall(p, out, i, rnd, last) ==
  IF i > Len(out) THEN last
  ELSE IF out[i].type = "audio"
       THEN LastAudioCall(parseSamples(p, out[i].data, rnd).p, out, i + 1, rnd,
                          AudioCallOf(p, out[i].data, parseSamples(p, out[i].data, rnd)))
       ELSE LastAudioCall(p, out, i + 1, rnd, last)

\* what a processBuffer call that returned r does to the host
Dispatched(given, r, rnd) ==
  /\ dataBuffer' = r.dataBuffer
  /\ callbacks' = callbacks \o r.out
  /\ lastRun' = [made |-> TRUE, buffer |-> given, before |-> Len(callbacks)]
  /\ ap' = HandleAudioData(ap, r.out, 1, rnd)
  /\ lastCall' = LastAudioCall(ap, r.out, 1, rnd, lastCall)

\* serial.js lines 187-196: the pending reader.read() resolves with a chunk;
\* the next reader.read() is made on the module's `reader', and throws when
\* that is null (then `finally' throws as well and the lock is kept)
Receive(chunk, rnd) ==
  /\ inner.pc = "reading"
  /\ portOpened
  /\ stream.id = inner.id
  /\ nItems < MaxSessionChunks
  /\ Dispatched(dataBuffer \o chunk, processBuffer(dataBuffer \o chunk, << >>), rnd)
  /\ nItems' = nItems + 1
  /\ IF reader = 0
     THEN /\ inner' = [inner EXCEPT !.pc = "ended"]
          /\ promises' = [promises EXCEPT ![inner.id] = "rejected"]
     ELSE UNCHANGED <<inner, promises>>
  /\ UNCHANGED <<wire, cut, sent, noise, lastGarbage, sessVars, history, plan, emitted,
                 portOpened, stream, reader, readableStreamClosed, loop, disc, cancelSeen,
                 devVars, envVars, sinkVars, thermVars, appVars,
                 raceVars>>

NextSession ==
  \/ connectSerial
  \/ DeviceLost
  \/ readSerialData_ReadDone
  \/ readSerialData_Resume
  \/ disconnectSerial
  \/ disconnectSerial_AfterCancel
  \/ disconnectSerial_AfterClosed
  \/ \E chunk \in SessionChunks, rnd \in RandomDraws : Receive(chunk, rnd)

SpecSession == InitSession /\ [][NextSession]_vars

\* C12: a connect that follows a disconnect leaves the demultiplexer buffer
\* empty and the reconstructor's decoder predictor and step index,
\* expectedSeq and lastSample at their initial values.
C12_ReconnectResetsState ==
  [][ (sessions' = sessions + 1 /\ sessions >= 1 /\ disc.returned \in {"true", "false"}) =>
        /\ dataBuffer' = << >>
        /\ ap'.adpcmPredicted = NewAudioProcessor.adpcmPredicted
        /\ ap'.adpcmIndex = NewAudioProcessor.adpcmIndex
        /\ ap'.expectedSeq = NewAudioProcessor.expectedSeq
        /\ ap'.lastSample = NewAudioProcessor.lastSample
    ]_vars

\* C26: once disconnectSerial has returned true (and connectSerial was not
\* called again) no reader holds the stream, reader and port are null and
\* dataBuffer is empty; and after disconnectSerial cancelled the reader,
\* readSerialData does not get a new reader.
C26_DisconnectReleasesReader ==
  /\ disc.returned = "true" =>
       /\ ~stream.locked
       /\ inner.pc # "reading"
       /\ reader = 0
       /\ port = "null"
       /\ dataBuffer = << >>
  /\ cancelSeen # "reacquired"

\* C24: the audio frame 0xCA 0x02 with seq = 0, predictor = 0, stepIndex = 0
\* and 59 zero data bytes is decoded to exactly 118 samples, all 0, and
\* leaves the decoder at predictor 0 and step index 0; they are the samples
\* parseSamples returns when the packet is the first one or in order.
C24_ZeroFrameIsSilence ==
  (lastCall.made /\ lastCall.packet = SliceFrom(ZeroAudioFrame, 2)) =>
     /\ Len(lastCall.decodedSamples) = 118
     /\ \A i \in 1..Len(lastCall.decodedSamples) : lastCall.decodedSamples[i] = 0
     /\ ap.adpcmPredicted = 0 /\ ap.adpcmIndex = 0
     /\ (LastIsFirst \/ LastInOrder) => lastCall.samples = lastCall.decodedSamples

\* C24 witness: the first chunk read was that frame; it made the audio
\* callback, and parseSamples returned 118 samples equal to 0.
C24_Witness ==
  /\ nItems = 1
  /\ lastRun.made
  /\ lastRun.buffer = ZeroAudioFrame
  /\ callbacks = << [type |-> "audio", data |-> SliceFrom(ZeroAudioFrame, 2)] >>
  /\ lastCall.made
  /\ LastIsFirst
  /\ lastCall.samples = [i \in 1..118 |-> 0]

-----------------------------------------------------------------------------
(* SpecSink: the audio task, the thermal task and the control loop write    *)
(* their frames to the one Serial sink.  audioProcessSample and             *)
(* thermalSendFrame call serialWriteProtected, buttonSendState and          *)
(* audioPrintDebugStats call serialPrintlnProtected; the two functions are  *)
(* declared extern in the libraries and are modelled as the specification   *)
(* describes them: the mutex is taken, the frame's bytes are written, the   *)
(* mutex is given back.  The sink takes the bytes of a write in pieces.     *)

MaxWrites     == 2      \* frames each task writes
MaxWriteBytes == 64     \* bytes the sink takes in one piece

\* whether the task writes through the mutex-protected functions
\* (lib-02-audio line 152, thermal line 179, button line 20)
UsesProtectedWrite_AudioRaw(t) == t # "audio"

UsesProtectedWrite(t) == TRUE

\* the size of the frame the task writes: the audio frame, the thermal
\* frame, "btn:<state>" with the "\r\n" of println
FrameBytes(t) ==
  IF t = "audio" THEN AUDIO_BUFFER_SIZE
  ELSE IF t = "thermal" THEN THERMAL_FRAME_SIZE
  ELSE Len(ButtonLine(1))

InitSink ==
  /\ DevInit /\ EnvInit /\ ReconInit /\ DemuxInit /\ SessInit /\ SinkInit /\ MoreInit
  /\ ap = NewAudioProcessor

\* the task has a frame ready and calls the write function
CallWrite(t) ==
  /\ writers[t].pc = "idle"
  /\ writers[t].frame < MaxWrites
  /\ writers' = [writers EXCEPT ![t] = [pc |-> "waiting", frame |-> @.frame + 1, piece |-> 0]]
  /\ UNCHANGED <<mutex, sink, devVars, envVars, ap, reconVars, demuxVars, sessVars, moreVars>>

\* the mutex is taken (the task waits while another task holds it); a write
\* that does not go through the mutex starts at once
TakeMutex(t) ==
  /\ writers[t].pc = "waiting"
  /\ UsesProtectedWrite(t) => mutex = "free"
  /\ mutex' = IF UsesProtectedWrite(t) THEN t ELSE mutex
  /\ writers' = [writers EXCEPT ![t].pc = "writing"]
  /\ UNCHANGED <<sink, devVars, envVars, ap, reconVars, demuxVars, sessVars, moreVars>>

\* the sink takes the next piece of the frame: bytes piece .. to - 1
WritePiece(t, to) ==
  /\ writers[t].pc = "writing"
  /\ writers[t].piece < FrameBytes(t)
  /\ to = Min(writers[t].piece + MaxWriteBytes, FrameBytes(t))
  /\ sink' = Append(sink, [task |-> t, frame |-> writers[t].frame,
                           from |-> writers[t].piece, to |-> to])
  /\ writers' = [writers EXCEPT ![t].piece = to]
  /\ UNCHANGED <<mutex, devVars, envVars, ap, reconVars, demuxVars, sessVars, moreVars>>

\* the whole frame is written: the mutex is given back and the call returns
GiveMutex(t) ==
  /\ writers[t].pc = "writing"
  /\ writers[t].piece = FrameBytes(t)
  /\ mutex' = IF UsesProtectedWrite(t) THEN "free" ELSE mutex
  /\ writers' = [writers EXCEPT ![t].pc = "idle"]
  /\ UNCHANGED <<sink, devVars, envVars, ap, reconVars, demuxVars, sessVars, moreVars>>

NextSink ==
  \E t \in Tasks :
    \/ CallWrite(t)
    \/ TakeMutex(t)
    \/ \E to \in 1..THERMAL_FRAME_SIZE : WritePiece(t, to)
    \/ GiveMutex(t)

SpecSink == InitSink /\ [][NextSink]_vars

-----------------------------------------------------------------------------
(* SpecThermal: the thermal library of the device (thermalInit,             *)
(* thermalReadFrame, thermalSendFrame) writes to the serial link and the    *)
(* host reads what it wrote.  A float temperature is the integer number of  *)
(* 2^-19 degrees it stands for: every float of the model is a multiple of   *)
(* that unit, and the float operations round as the hardware does.          *)

MaxThermalFrames == 2   \* thermalSendFrame calls

FLOAT_UNIT == 524288    \* 2^19 units are one degree

\* the float nearest to the real number x units (x >= 0): 24 significant
\* bits, ties to the even significand
FloatSpacing(x) ==
  IF x < 16777216 THEN 1
  ELSE IF x < 33554432 THEN 2
  ELSE IF x < 67108864 THEN 4
  ELSE IF x < 134217728 THEN 8
  ELSE 16

RoundToFloat(x) ==
  LET m == FloatSpacing(x)
      q == x \div m
      r == x % m
  IN IF 2 * r < m THEN q * m
     ELSE IF 2 * r > m THEN (q + 1) * m
     ELSE IF q % 2 = 0 THEN q * m ELSE (q + 1) * m

\* lines 105-108: the clamp to 0.0 .. 40.0, the float product temp * 10.0f,
\* the float sum with 0.5f and the truncation of the cast to uint16_t
EncodeTemp(temp) ==
  LET low     == IF temp < 0 THEN 0 ELSE temp
      clamped == IF low > 40 * FLOAT_UNIT THEN 40 * FLOAT_UNIT ELSE low
      product == RoundToFloat(10 * clamped)
      sum     == RoundToFloat(product + FLOAT_UNIT \div 2)
  IN (sum \div FLOAT_UNIT) % 65536

\* lines 96-113: thermalBinaryBuffer as thermalSendFrame fills it
ThermalBuffer(frame) ==
  << 202, 1 >> \o
  [n \in 1..(2 * THERMAL_FRAME_PIXELS) |->
     LET encoded == EncodeTemp(frame[(n + 1) \div 2])
     IN IF n % 2 = 1 THEN encoded % 256 ELSE (encoded \div 256) % 256]

\* the temperatures mlx.getFrame delivers in the model: 0.0, the floats
\* nearest to 26.6 and to 25.849998, and -5.0 and 45.0
SensorTemps == {0, 13946061, 13552844, -2621440, 23592960}

\* a frame whose pixels run through 0.0, 0.5, 1.0, ... 40.0
RampFrame == [i \in 1..THERMAL_FRAME_PIXELS |-> ((i - 1) % 81) * (FLOAT_UNIT \div 2)]

SensorFrames ==
  { [i \in 1..THERMAL_FRAME_PIXELS |-> t] : t \in SensorTemps } \cup { RampFrame }

\* Serial.println of lines 34, 35 and 45
NOT_FOUND_TEXT ==
  << 69, 82, 82, 32, 77, 76, 88, 57, 48, 54, 52, 48, 32, 110, 111, 116, 32, 102, 111,
     117, 110, 100, 32, 97, 116, 32, 48, 120, 51, 51 >>
FALLBACK_TEXT ==
  << 70, 97, 108, 108, 98, 97, 99, 107, 32, 116, 111, 32, 109, 111, 99, 107, 32, 116,
     104, 101, 114, 109, 97, 108, 32, 109, 111, 100, 101, 32, 40, 48, 194, 176, 67, 32,
     102, 114, 97, 109, 101, 115, 41 >>
PrintLn(text) == text \o << 13, 10 >>

InitThermal ==
  /\ DevInit /\ EnvInit /\ ReconInit /\ DemuxInit /\ SessInit /\ SinkInit /\ MoreInit
  /\ ap = NewAudioProcessor

\* lines 28-53; found is what mlx.begin returns
thermalInit(found) ==
  /\ thermalPc = "boot"
  /\ thermalPc' = "run"
  /\ mlxBegin' = IF found THEN "found" ELSE "missing"
  /\ IF ~found
     THEN /\ wire' = wire \o PrintLn(DEBUG_PREFIX \o NOT_FOUND_TEXT)
                          \o PrintLn(DEBUG_PREFIX \o FALLBACK_TEXT)
          /\ mlxReady' = FALSE
          /\ mlxMockMode' = TRUE
          /\ thermalFrame' = [i \in 1..THERMAL_FRAME_PIXELS |-> 0]
          /\ thermalReturned' = TRUE
     ELSE /\ wire' = wire \o DebugLine
          /\ mlxReady' = TRUE
          /\ mlxMockMode' = FALSE
          /\ thermalReturned' = TRUE
          /\ UNCHANGED thermalFrame
  /\ UNCHANGED <<thermalTx, dataBuffer, callbacks, cut, nItems, sent, noise, lastGarbage,
                 lastRun, devVars, envVars, ap, reconVars, sessVars, sinkVars, loopVars, appVars,
                 raceVars>>

\* lines 56-58
thermalIsReady == mlxReady \/ mlxMockMode

\* lines 68-79; frame is what the sensor holds and ok whether mlx.getFrame
\* returns 0.  A getFrame that fails may or may not have written the buffer.
thermalReadFrame_NoMock(frame, ok) ==
  /\ thermalPc = "run"
  /\ IF ~mlxReady
     THEN thermalReturned' = FALSE /\ UNCHANGED thermalFrame
     ELSE /\ thermalReturned' = ok
          /\ IF ok THEN thermalFrame' = frame
             ELSE thermalFrame' \in {thermalFrame, frame}
  /\ UNCHANGED <<mlxReady, mlxMockMode, thermalPc, mlxBegin, thermalTx, demuxVars,
                 devVars, envVars, ap, reconVars, sessVars, sinkVars, loopVars, appVars,
                 raceVars>>

thermalReadFrame(frame, ok) ==
  /\ thermalPc = "run"
  /\ IF mlxMockMode
     THEN thermalReturned' = TRUE /\ UNCHANGED thermalFrame
     ELSE IF ~mlxReady
     THEN thermalReturned' = FALSE /\ UNCHANGED thermalFrame
     ELSE /\ thermalReturned' = ok
          /\ IF ok THEN thermalFrame' = frame
             ELSE thermalFrame' \in {thermalFrame, frame}
  /\ UNCHANGED <<mlxReady, mlxMockMode, thermalPc, mlxBegin, thermalTx, demuxVars,
                 devVars, envVars, ap, reconVars, sessVars, sinkVars, loopVars, appVars,
                 raceVars>>

\* lines 90-117: the frame goes out whole (serialWriteProtected)
thermalSendFrame ==
  /\ thermalPc = "run"
  /\ Len(thermalTx) < MaxThermalFrames
  /\ IF ~mlxReady /\ ~mlxMockMode
     THEN UNCHANGED <<wire, thermalTx>>
     ELSE /\ wire' = wire \o ThermalBuffer(thermalFrame)
          /\ thermalTx' = Append(thermalTx, [frame |-> thermalFrame,
                                             bytes |-> ThermalBuffer(thermalFrame)])
  /\ UNCHANGED <<mlxReady, mlxMockMode, thermalFrame, thermalPc, thermalReturned, mlxBegin,
                 dataBuffer, callbacks, cut, nItems, sent, noise, lastGarbage, lastRun,
                 devVars, envVars, ap, reconVars, sessVars, sinkVars, loopVars, appVars,
                 raceVars>>

NextThermal ==
  \/ \E found \in BOOLEAN : thermalInit(found)
  \/ \E frame \in SensorFrames, ok \in BOOLEAN : thermalReadFrame(frame, ok)
  \/ thermalSendFrame
  \/ Read(Len(wire))

SpecThermal == InitThermal /\ [][NextThermal]_vars

\* the thermal callbacks the host has made, in order
IsThermalCallback(c) == c.type = "thermal"
ThermalCallbacks == SelectSeq(callbacks, IsThermalCallback)

\* decoded tenths of a degree are within 0.05 degrees of temp units
WithinHalfTenth(decoded, temp) ==
  Abs(decoded * FLOAT_UNIT - 10 * temp) <= FLOAT_UNIT \div 2

\* C22: for every pixel temperature in 0.0 .. 40.0 that the device sent in a
\* frame, the value the host hands to the thermal callback (encoded / 10) is
\* within 0.05 degrees of the temperature.
C22_QuantizationRoundTrip ==
  \A j \in 1..Len(ThermalCallbacks) :
    \A i \in 1..THERMAL_FRAME_PIXELS :
      LET temp == thermalTx[j].frame[i]
      IN (0 <= temp /\ temp <= 40 * FLOAT_UNIT) =>
            WithinHalfTenth(ThermalCallbacks[j].data[i], temp)

\* the frame 0xCA 0x01 and 1536 zero bytes
ZeroThermalFrame == << 202, 1 >> \o [n \in 1..(2 * THERMAL_PIXEL_COUNT) |-> 0]

\* C23: every thermal frame the host has read made one thermal callback, with
\* exactly 768 values, value i (counted from 0) being the little-endian
\* 16-bit number at payload offset 2 * i, taken as tenths of a degree; the
\* frame 0xCA 0x01 with 1536 zero bytes gives 768 values 0.0.
C23_ThermalFrameDecoded ==
  /\ Len(ThermalCallbacks) <= Len(thermalTx)
  /\ wire = << >> => (Len(ThermalCallbacks) = Len(thermalTx) /\ dataBuffer = << >>)
  /\ \A j \in 1..Len(ThermalCallbacks) :
       /\ DOMAIN ThermalCallbacks[j].data = 1..768
       /\ \A i \in 0..767 :
            ThermalCallbacks[j].data[i + 1] =
              thermalTx[j].bytes[2 + 2 * i + 1] + 256 * thermalTx[j].bytes[2 + 2 * i + 2]
       /\ thermalTx[j].bytes = ZeroThermalFrame =>
            \A i \in 1..768 : ThermalCallbacks[j].data[i] = 0

\* C23 witness: the host has read two frames, one whose pixels run from 0.0
\* to 40.0 (pixel 81 is 40.0, the bytes 0x90 0x01) and one of zero bytes,
\* and made a callback for each.
C23_Witness ==
  /\ Len(thermalTx) = 2
  /\ Len(ThermalCallbacks) = 2
  /\ thermalTx[1].frame = RampFrame
  /\ thermalTx[1].bytes[163] = 144 /\ thermalTx[1].bytes[164] = 1
  /\ ThermalCallbacks[1].data[81] = 400
  /\ thermalTx[2].bytes = ZeroThermalFrame
  /\ \A i \in 1..768 : ThermalCallbacks[2].data[i] = 0

\* C25: when mlx.begin failed in thermalInit, thermalIsReady() is true,
\* thermalInit and every thermalReadFrame call since returned true, and every
\* thermal frame written is 0xCA 0x01 followed by 1536 zero bytes, 1538
\* bytes in all.
C25_MockModeKeepsProducing ==
  mlxBegin = "missing" =>
    /\ thermalIsReady
    /\ thermalReturned = TRUE
    /\ \A j \in 1..Len(thermalTx) :
         /\ Len(thermalTx[j].bytes) = 1538
         /\ thermalTx[j].bytes[1] = 202 /\ thermalTx[j].bytes[2] = 1
         /\ \A n \in 3..1538 : thermalTx[j].bytes[n] = 0

\* C25 witness: the sensor was not found, two frames were written after
\* that, and the host has read both as frames of 768 zeros, after the two
\* debug lines of thermalInit.
C25_Witness ==
  /\ mlxBegin = "missing"
  /\ mlxMockMode
  /\ Len(thermalTx) = 2
  /\ Len(callbacks) = 4
  /\ callbacks[1].type = "console" /\ callbacks[2].type = "console"
  /\ callbacks[3].type = "thermal" /\ callbacks[4].type = "thermal"
  /\ \A i \in 1..768 : callbacks[4].data[i] = 0


-----------------------------------------------------------------------------
(* SpecApp: the application of web/main.js.  The device reports button      *)
(* counts, the user clicks the record, stop and reset buttons, audio and    *)
(* thermal callbacks arrive, playback ends, and time passes in ticks; the   *)
(* hold timer set by _handleButtonStateChange fires when its time is up.    *)
(* `app' holds what the transitions act on: the isRecording flags and the   *)
(* amount recorded of this.audio and this.thermalRecorder, and the disabled *)
(* flags of the buttons; `handler' names the last handler run and `thrown'  *)
(* tells that it ended by an exception.  startRecording also resets the     *)
(* decoder fields of this.audio (audio.js 44-50), which no action of this   *)
(* specification changes.                                                   *)

HoldTicks    == 2    \* _buttonHoldDuration (1000 ms) in ticks of 500 ms
MaxAppEvents == 6    \* button reports and clicks
MaxRecorded  == 2    \* audio packets / thermal frames kept of one recording

\* the counts the device reports (part_008 line 16: 0, 1 or 2)
ButtonCounts == 0..2

\* what the application's actions leave alone
AppFrame ==
  UNCHANGED <<devVars, envVars, ap, reconVars, demuxVars, sessVars, sinkVars, thermVars,
              loopVars, raceVars>>

\* main.js lines 235-241, 256-262, 277-283 and btn.js lines 60, 67, 74: the
\* state the timer started in a state leads to
DelayedTarget(state) ==
  CASE state = AppState.WARMUP   -> AppState.RECORDING
    [] state = AppState.COOLDOWN -> AppState.LOADED
    [] state = AppState.REWARMUP -> AppState.REPLAY
    [] OTHER                     -> state

\* main.js lines 470-478
startRecording(a) ==
  [a EXCEPT !.audio_isRecording = TRUE, !.audio_recordedSamples = 0,
            !.thermalRecorder_isRecording = TRUE, !.thermalRecorder_frames = 0,
            !.recordBtn_disabled = TRUE, !.stopBtn_disabled = FALSE]

\* main.js lines 480-486
stopRecording(a) ==
  [a EXCEPT !.audio_isRecording = FALSE, !.thermalRecorder_isRecording = FALSE,
            !.recordBtn_disabled = FALSE, !.stopBtn_disabled = TRUE]

\* main.js lines 389-392
App_startRecording(a) == IF a.recordBtn_disabled THEN a ELSE startRecording(a)

\* main.js lines 397-401
App_stopRecording(a) == IF a.audio_isRecording THEN stopRecording(a) ELSE a

\* main.js lines 301-310: this.audio.stopRecording() sets isRecording to
\* false; this.audio.clearRecording is not a function (AudioProcessor,
\* audio.js 17-292, defines none), so the call at line 303 throws a TypeError
\* and lines 304-309 are not run
App_discardRecording(a) ==
  [a EXCEPT !.audio_isRecording = FALSE, !.thrown = TRUE]

\* main.js lines 324-360 (part_001 lines 502-538): the actions of a
\* transition
StateActions(a, newState, oldState) ==
  CASE newState = AppState.EMPTY ->
         IF oldState = AppState.WARMUP THEN App_discardRecording(a)
         ELSE App_stopRecording(a)
    [] newState = AppState.WARMUP -> App_startRecording(a)
    [] newState = AppState.RECORDING ->
         IF oldState = AppState.EMPTY THEN App_startRecording(a) ELSE a
    [] newState = AppState.LOADED -> App_stopRecording(a)
    [] newState = AppState.REPLAY -> App_stopRecording(a)
    [] OTHER -> a

\* the handler h starts: nothing thrown yet, the StateMachine's callback not
\* called yet
Calm(a, h) == [a EXCEPT !.handler = h, !.thrown = FALSE, !.onTransition = << >>]

\* main.js lines 316-361
App_transitionTo(newState, h) ==
  /\ currentState' = newState
  /\ app' = StateActions(Calm(app, h), newState, currentState)
  /\ sinceEnter' = IF newState = currentState THEN sinceEnter ELSE 0

\* the handler h makes no transition
StayInState(h) ==
  /\ app' = Calm(app, h)
  /\ UNCHANGED <<currentState, sinceEnter>>

\* clearTimeout(handle)
ClearTimeout(handle) == { t \in timers : t.id # handle }

\* setTimeout(callback, hold duration): the new timer's handle
NewTimerId(pending) ==
  CHOOSE n \in 1..(Cardinality(pending) + 1) : \A t \in pending : t.id # n

SetTimeout(pending, state) ==
  pending \cup {[id |-> NewTimerId(pending), state |-> state, left |-> HoldTicks]}

\* main.js lines 228-297: the state the switch leads to for a button count,
\* the current state when it makes no transition
SwitchTarget(state, buttonCount) ==
  CASE state = AppState.EMPTY     /\ buttonCount = 2 -> AppState.WARMUP
    [] state = AppState.WARMUP    /\ buttonCount # 2 -> AppState.EMPTY
    [] state = AppState.RECORDING /\ buttonCount # 2 -> AppState.COOLDOWN
    [] state = AppState.COOLDOWN  /\ buttonCount = 2 -> AppState.RECORDING
    [] state = AppState.LOADED    /\ buttonCount = 2 -> AppState.REWARMUP
    [] state = AppState.REWARMUP  /\ buttonCount # 2 -> AppState.LOADED
    [] state = AppState.REPLAY    /\ buttonCount = 0 -> AppState.EMPTY
    [] OTHER -> state

\* the states entered with a hold timer (main.js 235, 256, 277; btn.js 60,
\* 67, 74)
TimedStates == {AppState.WARMUP, AppState.COOLDOWN, AppState.REWARMUP}

\* serial.js button callback -> updateButtonState (btn.js 22-29: only a
\* changed count is passed on) -> main.js lines 121-124 and 219-298
App_handleButtonStateChange(buttonCount) ==
  /\ buttonCount # buttonState
  /\ appEvents < MaxAppEvents
  /\ buttonState' = buttonCount
  /\ appEvents' = appEvents + 1
  /\ LET target == SwitchTarget(currentState, buttonCount)
         kept   == IF currentTimer # 0 THEN ClearTimeout(currentTimer) ELSE timers
     IN  IF target = currentState
         THEN /\ StayInState("button")
              /\ timers' = kept
              /\ currentTimer' = 0
         ELSE /\ App_transitionTo(target, "button")
              /\ IF target \in TimedStates
                 THEN /\ timers' = SetTimeout(kept, target)
                      /\ currentTimer' = NewTimerId(kept)
                 ELSE /\ timers' = kept
                      /\ currentTimer' = 0
  /\ AppFrame

\* main.js lines 235-241, 256-262, 277-283: the timer's time is up
App_TimerFires ==
  \E t \in timers :
    /\ t.left = 0
    /\ timers' = timers \ {t}
    /\ currentTimer' = 0
    /\ IF currentState = t.state THEN App_transitionTo(DelayedTarget(t.state), "timer")
       ELSE StayInState("timer")
    /\ UNCHANGED <<buttonState, appEvents>>
    /\ AppFrame

\* half a second passes; a timer whose time is up fires first
Tick ==
  /\ \A t \in timers : t.left > 0
  /\ sinceEnter <= HoldTicks \/ timers # {}
  /\ timers' = { [t EXCEPT !.left = @ - 1] : t \in timers }
  /\ sinceEnter' = IF sinceEnter <= HoldTicks THEN sinceEnter + 1 ELSE sinceEnter
  /\ UNCHANGED <<currentState, buttonState, currentTimer, app, appEvents>>
  /\ AppFrame

\* main.js line 134: a click on the stop button (a disabled button gets none)
App_StopClick ==
  /\ ~app.stopBtn_disabled
  /\ appEvents < MaxAppEvents
  /\ appEvents' = appEvents + 1
  /\ App_transitionTo(AppState.LOADED, "stop")
  /\ UNCHANGED <<buttonState, timers, currentTimer>>
  /\ AppFrame

\* main.js lines 133 and 366-370: a click on the record button
App_startManualRecording ==
  /\ ~app.recordBtn_disabled
  /\ appEvents < MaxAppEvents
  /\ appEvents' = appEvents + 1
  /\ IF currentState = AppState.EMPTY THEN App_transitionTo(AppState.RECORDING, "record")
     ELSE StayInState("record")
  /\ UNCHANGED <<buttonState, timers, currentTimer>>
  /\ AppFrame

\* main.js lines 138 and 382-384: a click on the reset button
App_resetState ==
  /\ appEvents < MaxAppEvents
  /\ appEvents' = appEvents + 1
  /\ App_transitionTo(AppState.EMPTY, "reset")
  /\ UNCHANGED <<buttonState, timers, currentTimer>>
  /\ AppFrame

\* main.js lines 145-149: the audio player's `ended' event during replay
App_AudioEnded ==
  /\ currentState = AppState.REPLAY
  /\ App_transitionTo(AppState.EMPTY, "ended")
  /\ UNCHANGED <<buttonState, timers, currentTimer, appEvents>>
  /\ AppFrame

\* main.js lines 430-438 when connectSerial returned true
connectSerialPort ==
  /\ ~app.serialConnectBtn_disabled
  /\ appEvents < MaxAppEvents
  /\ appEvents' = appEvents + 1
  /\ app' = [Calm(app, "connect") EXCEPT !.serialConnectBtn_disabled = TRUE,
                              !.recordBtn_disabled = FALSE]
  /\ UNCHANGED <<currentState, buttonState, timers, currentTimer, sinceEnter>>
  /\ AppFrame

\* main.js lines 488-503 and audio.js 57-61: an audio packet's samples are
\* kept while the audio processor is recording
App_handleAudioData ==
  /\ app.audio_isRecording
  /\ app.audio_recordedSamples < MaxRecorded
  /\ app' = [Calm(app, "audio") EXCEPT !.audio_recordedSamples = @ + 1]
  /\ UNCHANGED <<currentState, buttonState, timers, currentTimer, sinceEnter, appEvents>>
  /\ AppFrame

\* main.js lines 453-459 and recorder.js 36-44: a thermal frame is kept
\* while the thermal recorder is recording
App_ThermalData ==
  /\ app.thermalRecorder_isRecording
  /\ app.thermalRecorder_frames < MaxRecorded
  /\ app' = [Calm(app, "thermal") EXCEPT !.thermalRecorder_frames = @ + 1]
  /\ UNCHANGED <<currentState, buttonState, timers, currentTimer, sinceEnter, appEvents>>
  /\ AppFrame

InitApp ==
  /\ DevInit /\ EnvInit /\ ReconInit /\ DemuxInit /\ SessInit /\ SinkInit /\ MoreInit
  /\ ap = NewAudioProcessor

NextApp ==
  \/ \E n \in ButtonCounts : App_handleButtonStateChange(n)
  \/ App_TimerFires
  \/ Tick
  \/ App_StopClick
  \/ App_startManualRecording
  \/ App_resetState
  \/ App_AudioEnded
  \/ connectSerialPort
  \/ App_handleAudioData
  \/ App_ThermalData

SpecApp == InitApp /\ [][NextApp]_vars

\* C28: while the machine is in COOLDOWN (where every count reported is
\* below 2, a count of 2 leads back to RECORDING) it reaches LOADED when the
\* hold duration is over: it is never in COOLDOWN for longer.
C28_CooldownReachesLoaded ==
  currentState = AppState.COOLDOWN => sinceEnter <= HoldTicks

\* C30: a transition from WARMUP to EMPTY after the recording was started
\* leaves neither the audio processor nor the thermal recorder recording,
\* both without recorded data, and the record button enabled, so that the
\* next EMPTY -> WARMUP starts a recording.
C30_WarmupReleaseDiscards ==
  [][ (currentState = AppState.WARMUP /\ currentState' = AppState.EMPTY
       /\ app.audio_isRecording) =>
        /\ ~app'.audio_isRecording
        /\ ~app'.thermalRecorder_isRecording
        /\ app'.audio_recordedSamples = 0
        /\ app'.thermalRecorder_frames = 0
        /\ ~app'.recordBtn_disabled
    ]_vars

-----------------------------------------------------------------------------
(* SpecButton: the application built on StateMachine (web/state.js) and     *)
(* ButtonStateHandler (web/btn.js): button counts go through                *)
(* handleButtonStateChange, the clicks and the `ended' event call the       *)
(* StateMachine themselves, and the StateMachine's callback runs the same   *)
(* actions per state as main.js does.                                       *)

\* state.js lines 51-61: nothing happens when the state is the current one;
\* else the state changes and the callback (_handleStateTransition) runs
\* (app.onTransition lists the arguments of the callback's calls made in the
\* handler that ran last)
StateMachine_transitionTo_NoSameCheck(newState, h) ==
  /\ currentState' = newState
  /\ app' = [StateActions(Calm(app, h), newState, currentState)
               EXCEPT !.onTransition = Append(@, <<newState, currentState>>)]
  /\ sinceEnter' = 0

StateMachine_transitionTo(newState, h) ==
  IF newState = currentState THEN StayInState(h)
  ELSE /\ currentState' = newState
       /\ app' = [StateActions(Calm(app, h), newState, currentState)
                    EXCEPT !.onTransition = Append(@, <<newState, currentState>>)]
       /\ sinceEnter' = 0

\* btn.js lines 146-151
buttonCountToEvent(buttonCount) ==
  CASE buttonCount = 2 -> "BUTTON_TWO"
    [] buttonCount = 1 -> "BUTTON_RELEASE"
    [] buttonCount = 0 -> "BUTTON_ZERO"
    [] OTHER           -> "null"

\* btn.js lines 55-80: STATE_CONFIG[state].on[event], "undefined" when the
\* state has no entry for the event
ConfigTarget_ReplayOnRelease(state, event) ==
  CASE state = AppState.EMPTY     /\ event = "BUTTON_TWO"     -> AppState.WARMUP
    [] state = AppState.WARMUP    /\ event = "BUTTON_RELEASE" -> AppState.EMPTY
    [] state = AppState.RECORDING /\ event = "BUTTON_RELEASE" -> AppState.COOLDOWN
    [] state = AppState.COOLDOWN  /\ event = "BUTTON_TWO"     -> AppState.RECORDING
    [] state = AppState.LOADED    /\ event = "BUTTON_TWO"     -> AppState.REWARMUP
    [] state = AppState.REWARMUP  /\ event = "BUTTON_RELEASE" -> AppState.LOADED
    [] state = AppState.REPLAY    /\ event = "BUTTON_RELEASE" -> AppState.EMPTY
    [] OTHER -> "undefined"

ConfigTarget(state, event) ==
  CASE state = AppState.EMPTY     /\ event = "BUTTON_TWO"     -> AppState.WARMUP
    [] state = AppState.WARMUP    /\ event = "BUTTON_RELEASE" -> AppState.EMPTY
    [] state = AppState.RECORDING /\ event = "BUTTON_RELEASE" -> AppState.COOLDOWN
    [] state = AppState.COOLDOWN  /\ event = "BUTTON_TWO"     -> AppState.RECORDING
    [] state = AppState.LOADED    /\ event = "BUTTON_TWO"     -> AppState.REWARMUP
    [] state = AppState.REWARMUP  /\ event = "BUTTON_RELEASE" -> AppState.LOADED
    [] state = AppState.REPLAY    /\ event = "BUTTON_ZERO"    -> AppState.EMPTY
    [] OTHER -> "undefined"

\* btn.js lines 135-139: _onStateExit clears the timer whose handle
\* _currentTimer holds, the StateMachine changes state, and _onStateEnter
\* (not reached when the callback threw) starts the timer of a state that has
\* a delayedTransition
ButtonStateHandler_transitionTo(targetState, pending, h) ==
  LET kept == IF currentTimer # 0 THEN { t \in pending : t.id # currentTimer }
              ELSE pending
  IN  /\ StateMachine_transitionTo(targetState, h)
      /\ IF targetState \in TimedStates /\ ~app'.thrown
         THEN /\ timers' = SetTimeout(kept, targetState)
              /\ currentTimer' = NewTimerId(kept)
         ELSE /\ timers' = kept
              /\ currentTimer' = 0

\* serial.js button callback -> updateButtonState (btn.js 22-29) -> part_001
\* lines 320-323 -> btn.js lines 157-168
handleButtonStateChange(buttonCount) ==
  /\ buttonCount # buttonState
  /\ appEvents < MaxAppEvents
  /\ buttonState' = buttonCount
  /\ appEvents' = appEvents + 1
  /\ LET targetState == ConfigTarget(currentState, buttonCountToEvent(buttonCount))
     IN  IF targetState = "undefined"
         THEN /\ StayInState("button")
              /\ UNCHANGED <<timers, currentTimer>>
         ELSE ButtonStateHandler_transitionTo(targetState, timers, "button")
  /\ AppFrame

\* btn.js lines 121-127: the timer's time is up
ButtonStateHandler_TimerFires_NoStateCheck ==
  \E t \in timers :
    /\ t.left = 0
    /\ ButtonStateHandler_transitionTo(DelayedTarget(t.state), timers \ {t}, "timer")
    /\ UNCHANGED <<buttonState, appEvents>>
    /\ AppFrame

ButtonStateHandler_TimerFires ==
  \E t \in timers :
    /\ t.left = 0
    /\ IF currentState = t.state
       THEN ButtonStateHandler_transitionTo(DelayedTarget(t.state), timers \ {t}, "timer")
       ELSE /\ StayInState("timer")
            /\ timers' = timers \ {t}
            /\ currentTimer' = 0
    /\ UNCHANGED <<buttonState, appEvents>>
    /\ AppFrame

\* part_001 line 336: a click on the stop button
StopClick ==
  /\ ~app.stopBtn_disabled
  /\ appEvents < MaxAppEvents
  /\ appEvents' = appEvents + 1
  /\ StateMachine_transitionTo(AppState.LOADED, "stop")
  /\ UNCHANGED <<buttonState, timers, currentTimer>>
  /\ AppFrame

\* part_001 lines 335 and 544-548: a click on the record button
startManualRecording ==
  /\ ~app.recordBtn_disabled
  /\ appEvents < MaxAppEvents
  /\ appEvents' = appEvents + 1
  /\ IF currentState = AppState.EMPTY
     THEN StateMachine_transitionTo(AppState.RECORDING, "record")
     ELSE StayInState("record")
  /\ UNCHANGED <<buttonState, timers, currentTimer>>
  /\ AppFrame

\* part_001 lines 340 and 560-562, state.js lines 75-77: a click on the
\* reset button
resetState ==
  /\ appEvents < MaxAppEvents
  /\ appEvents' = appEvents + 1
  /\ StateMachine_transitionTo(AppState.EMPTY, "reset")
  /\ UNCHANGED <<buttonState, timers, currentTimer>>
  /\ AppFrame

\* part_001 lines 363-367: the audio player's `ended' event during replay
AudioEnded ==
  /\ currentState = AppState.REPLAY
  /\ StateMachine_transitionTo(AppState.EMPTY, "ended")
  /\ UNCHANGED <<buttonState, timers, currentTimer, appEvents>>
  /\ AppFrame

NextButton ==
  \/ \E n \in ButtonCounts : handleButtonStateChange(n)
  \/ ButtonStateHandler_TimerFires
  \/ Tick
  \/ StopClick
  \/ startManualRecording
  \/ resetState
  \/ AudioEnded
  \/ connectSerialPort
  \/ App_handleAudioData
  \/ App_ThermalData

SpecButton == InitApp /\ [][NextButton]_vars

\* the state that WARMUP, RECORDING and REWARMUP are left for when the
\* button count falls below 2 (state.js lines 7, 8 and 13)
ReleaseTarget(state) ==
  CASE state = AppState.WARMUP    -> AppState.EMPTY
    [] state = AppState.RECORDING -> AppState.COOLDOWN
    [] state = AppState.REWARMUP  -> AppState.LOADED
    [] OTHER                      -> state

\* C27: in WARMUP, RECORDING and REWARMUP a reported button count below 2,
\* be it 1 or 0, takes the machine to EMPTY, COOLDOWN and LOADED.
C27_ReleaseExitsForAnyCountBelowTwo ==
  [][ (buttonState' # buttonState /\ buttonState' < 2
       /\ currentState \in {AppState.WARMUP, AppState.RECORDING, AppState.REWARMUP}) =>
        currentState' = ReleaseTarget(currentState)
    ]_vars

\* C29: every pending timer was started on entering the state the machine is
\* in now, and at most one timer is pending.
C29_TimerBelongsToCurrentState ==
  /\ \A t \in timers : t.state = currentState
  /\ Cardinality(timers) <= 1

\* C31 as stated: in REPLAY a changed button count leads to EMPTY when it is
\* 0 and changes nothing when it is 1 or 2, and the machine leaves REPLAY
\* for EMPTY only in a button report of count 0 or in the `ended' listener.
C31_ReplayExitsOnZeroOrEnded ==
  [][ /\ (currentState = AppState.REPLAY /\ buttonState' # buttonState) =>
            currentState' = IF buttonState' = 0 THEN AppState.EMPTY ELSE AppState.REPLAY
      /\ (currentState = AppState.REPLAY /\ currentState' = AppState.EMPTY) =>
            \/ buttonState' # buttonState /\ buttonState' = 0
            \/ app'.handler = "ended"
    ]_vars

\* C31, amended: in REPLAY a changed button count leads to EMPTY when it is
\* 0 and changes nothing when it is 1 or 2, and the machine leaves REPLAY
\* for EMPTY only in a button report of count 0, in the `ended' listener or
\* in a click on the reset button.
C31_ReplayExitsOnZeroEndedOrReset ==
  [][ /\ (currentState = AppState.REPLAY /\ buttonState' # buttonState) =>
            currentState' = IF buttonState' = 0 THEN AppState.EMPTY ELSE AppState.REPLAY
      /\ (currentState = AppState.REPLAY /\ currentState' = AppState.EMPTY) =>
            \/ buttonState' # buttonState /\ buttonState' = 0
            \/ app'.handler \in {"ended", "reset"}
    ]_vars

\* C31 witness: a button count of 1 was reported during the replay and the
\* machine is still in REPLAY.
C31_Witness ==
  /\ currentState = AppState.REPLAY
  /\ app.handler = "button"
  /\ buttonState = 1

\* C32: the StateMachine starts in EMPTY (no handler has run: state EMPTY);
\* a handler in which the state changes calls onTransition exactly once,
\* with (new state, old state); a handler in which the state does not
\* change (transitionTo of the current state among them) does not call it.
C32_TransitionCallsBackOnce ==
  /\ app.handler = "constructor" => currentState = AppState.EMPTY /\ app.onTransition = << >>
  /\ [][ app' # app =>
            app'.onTransition =
              IF currentState' # currentState THEN << <<currentState', currentState>> >>
              ELSE << >>
       ]_vars

\* C32 witness: the reset button was clicked in EMPTY: transitionTo(EMPTY)
\* changed nothing and called nothing.
C32_Witness ==
  /\ app.handler = "reset"
  /\ currentState = AppState.EMPTY
  /\ app.onTransition = << >>
  /\ sinceEnter > 0

\* C40: a timer's callback changes the state only when the machine is in
\* the state the timer was started in and has been in it for the whole hold
\* duration, and then to that state's delayed target; clicks and the
\* `ended' listener, which change the state through StateMachine.transitionTo,
\* are among the steps.
C40_DelayedTransitionNeedsStay ==
  [][ (app'.handler = "timer" /\ currentState' # currentState) =>
        /\ currentState \in TimedStates
        /\ currentState' = DelayedTarget(currentState)
        /\ sinceEnter = HoldTicks
        /\ \E t \in timers : t.left = 0 /\ t.state = currentState /\ t.id = currentTimer
    ]_vars

\* C40 witness: the timer started for WARMUP fired after a click on the reset
\* button had taken the machine to EMPTY, and the machine is still in EMPTY.
C40_Witness ==
  /\ app.handler = "timer"
  /\ currentState = AppState.EMPTY
  /\ buttonState = 2
  /\ timers = {}

\* C37: a packet whose gap is at least 1000 and below 65536 - 1000 is
\* accepted as if it were in order: parseSamples returns its 118 decoded
\* samples and nothing before them, droppedPackets stays as it was and
\* expectedSeq is the packet's sequence number plus 1 modulo 65536.
C37_FarGapAcceptedAsInOrder ==
  LastFar =>
    /\ lastCall.samples = lastCall.decodedSamples
    /\ Len(lastCall.samples) = SAMPLES_PER_PACKET
    /\ ap.droppedPackets = lastCall.before.droppedPackets
    /\ ap.expectedSeq = (lastCall.seq + 1) % 65536

\* C37 witness: after a gap that was filled, a packet that is not the first
\* arrived exactly 1000 sequence numbers ahead of the expected one.
C37_Witness ==
  /\ LastFar
  /\ ~LastIsFirst
  /\ LastGap = 1000
  /\ lastCall.before.droppedPackets > 0

-----------------------------------------------------------------------------
(* SpecRestart: packets are delivered to one AudioProcessor as in           *)
(* SpecRecon, and the application starts a new recording in between.        *)

MaxRestartPackets == 3     \* packets delivered, before and after the restarts

\* audio.js lines 40-51: startRecording resets the decoder and the packet
\* tracking (recordedSamples and isRecording are in `app')
AudioProcessor_startRecording ==
  /\ ap' = [ap EXCEPT !.adpcmPredicted = 0, !.adpcmIndex = 0, !.expectedSeq = 0,
                      !.lastSample = 0, !.droppedPackets = 0, !.totalPackets = 0,
                      !.totalSamplesDecoded = 0]
  /\ UNCHANGED <<reconVars, devVars, envVars, demuxVars, sessVars, sinkVars, moreVars>>

\* a packet arrives, with any of the sequence numbers of SpecRecon
DeliverToRecorder ==
  /\ Len(history) < MaxRestartPackets
  /\ NextRecon

NextRestart ==
  \/ DeliverToRecorder
  \/ AudioProcessor_startRecording

SpecRestart == InitRecon /\ [][NextRestart]_vars

\* C39: the first packet after construction or after startRecording() is
\* accepted whatever its sequence number: parseSamples returns its 118
\* decoded samples with nothing before them, counts no dropped packet and
\* sets expectedSeq to the packet's sequence number plus 1 modulo 65536.
C39_FirstPacketAccepted ==
  [][ (history' # history /\ ap.totalPackets = 0) =>
        /\ lastCall'.samples = lastCall'.decodedSamples
        /\ Len(lastCall'.samples) = SAMPLES_PER_PACKET
        /\ ap'.droppedPackets = 0
        /\ ap'.expectedSeq = (lastCall'.seq + 1) % 65536
    ]_vars

\* C39 witness: a recording was started after two packets, and its first
\* packet has the number 65535, which is 1 behind the expected number 0.
C39_Witness ==
  /\ lastCall.made /\ LastIsFirst
  /\ Len(history) = 3
  /\ lastCall.seq = 65535
  /\ ap.totalPackets = 1
  /\ ap.expectedSeq = 0

-----------------------------------------------------------------------------
(* SpecStream: an AudioProcessor that has received packets before receives  *)
(* a stream of packets with consecutive sequence numbers, which starts at,  *)
(* behind or far ahead of the number it expects.  The stream is followed    *)
(* until parseSamples returns samples.                                      *)

MaxStream == 1002      \* packets of the stream delivered

\* the reconstructor before the stream: expectedSeq and totalPackets
StreamStates == { <<0, 0>>, <<0, 1>>, <<700, 1>>, <<700, 2>>, <<0, 2>> }

\* how far the stream's first sequence number is behind the expected one
StreamBehind == {0, 1, GAP_LIMIT, GAP_LIMIT + 1}

InitStream ==
  /\ DevInit /\ EnvInit /\ DemuxInit /\ SessInit /\ SinkInit /\ MoreInit
  /\ \E st \in StreamStates, b \in StreamBehind :
       /\ ap = [NewAudioProcessor EXCEPT !.expectedSeq = st[1], !.totalPackets = st[2]]
       /\ plan = << (st[1] - b + 65536) % 65536 >>
  /\ lastCall = NoCall
  /\ history = << >>
  /\ emitted = 0

\* the next packet of the stream is handed to parseSamples; the one after it
\* has the next sequence number
DeliverNext(content) ==
  /\ emitted = 0
  /\ Len(history) < MaxStream
  /\ DeliverPacket(Head(plan), content, 1)
  /\ plan' = << (Head(plan) + 1) % 65536 >>
  /\ UNCHANGED <<devVars, envVars, demuxVars, sessVars, sinkVars, moreVars>>

NextStream == \E content \in PacketContents : DeliverNext(content)

SpecStream == InitStream /\ [][NextStream]_vars

\* C38: of a stream of packets with consecutive sequence numbers, given to a
\* reconstructor in any state, at most 1000 packets in a row are discarded
\* as stale before one is accepted (as long as nothing was returned, every
\* packet delivered was discarded).
C38_StaleRunBounded ==
  emitted = 0 => Len(history) <= GAP_LIMIT /\ (lastCall.made => LastStale)

\* C38 witness: the stream started 1000 behind the expected number; 1000
\* packets were discarded and the next one was accepted.
C38_Witness ==
  /\ Len(history) = GAP_LIMIT + 1
  /\ emitted = SAMPLES_PER_PACKET
  /\ LastInOrder
  /\ ap.droppedPackets = 0

-----------------------------------------------------------------------------
(* SpecPackets: parseSamples is handed 64-byte packets whose header bytes   *)
(* are not those an encoder writes: any predictor, any step-index byte.     *)
(* The sequence numbers are the expected one, or 1 behind it, so that no    *)
(* gap is filled.                                                           *)

MaxPackets == 2        \* packets handed to parseSamples

\* header predictor (getInt16), step-index byte (getUint8) and the value of
\* the 59 data bytes
HeaderPredicted == {-32768, 32767}
HeaderIndexByte == {0, 88, 89, 255}
DataFill        == {0, 76, 247}        \* 0x00, 0x4C, 0xF7
PacketSeqOffsets == {0, 65535}

\* the index of the first STEP_TABLE lookup made for a packet (line 85, with
\* the adpcmIndex of line 181)
FirstLookupIndex(buffer) ==
  SyncToPacket(NewAudioProcessor, GetInt16LE(buffer, 2), GetUint8(buffer, 4)).adpcmIndex

ParsePacket(seq, content) ==
  /\ ap.totalPackets < MaxPackets
  /\ DeliverPacket(seq, content, 1)
  /\ UNCHANGED <<plan, devVars, envVars, demuxVars, sessVars, sinkVars, moreVars>>

NextPackets ==
  \E off \in PacketSeqOffsets, pr \in HeaderPredicted, ix \in HeaderIndexByte, fill \in DataFill :
    ParsePacket((ap.expectedSeq + off) % 65536, <<pr, ix, fill>>)

SpecPackets == InitRecon /\ [][NextPackets]_vars

\* C34: for every 64-byte packet handed to parseSamples, whatever its header
\* bytes, the step table is looked up at an index within 0..88 and every
\* sample returned is an integer within -32768..32767.
C34_ArbitraryHeaderDecodesInRange ==
  lastCall.made =>
    /\ FirstLookupIndex(lastCall.packet) \in 0..88
    /\ ap.adpcmIndex \in 0..88
    /\ \A i \in 1..Len(lastCall.samples) : lastCall.samples[i] \in -32768..32767

-----------------------------------------------------------------------------
(* SpecRace: the main loop has seen the disconnect and, after its           *)
(* delay(500), calls audioResetState (firmware-v2.ino 144-149); a client    *)
(* has connected again in the meantime, so the audio task (priority 2, the  *)
(* loop runs below it) calls audioProcessSample for every sample (lines     *)
(* 55-59).  The globals are plain variables without a lock:                 *)
(* audioResetState runs one assignment at a time, and the audio task, which *)
(* preempts the loop when a sample is ready, runs whole calls of            *)
(* audioProcessSample in between.                                           *)
(*                                                                          *)
(* race.pc is 0 while audioResetState is not running, else the number of    *)
(* the assignment (lines 100-106) it executes next.  race.low tells from    *)
(* which encoder state the nibble held in audioCurrentByte was encoded and  *)
(* which state that left; race.chain tells the same of the data bytes       *)
(* stored for the packet being built: the state before the nibbles of data  *)
(* byte 0, the state after the last nibble stored, and whether every nibble *)
(* stored was encoded from the state the one before it left.  race.tx holds *)
(* race.chain of every frame sent.                                          *)

MaxRaceSamples == 182    \* samples the audio task processes
MaxDuringReset == 2      \* samples processed while audioResetState is running

\* the numbers of samples processed when the loop calls audioResetState:
\* inside a data byte, between two data bytes, in the middle of a packet
ResetPoints == {1, 2, 61}

\* firmware-v2.ino line 149: loop() calls audioResetState
LoopCallsReset ==
  /\ race.pc = 0
  /\ nResets < MaxResets
  /\ nSamples \in ResetPoints
  /\ race' = [race EXCEPT !.pc = 1, !.during = 0]
  /\ nResets' = nResets + 1
  /\ sinceReset' = 0
  /\ UNCHANGED <<devVars, signal, nSamples, pktPre, txPre, returned>>
  /\ UNCHANGED <<ap, reconVars, demuxVars, sessVars, sinkVars, thermVars, loopVars, appVars>>

\* part_007 lines 100-106: the next assignment of audioResetState
ResetStatement ==
  /\ race.pc \in 1..7
  /\ race' = [race EXCEPT !.pc = IF @ = 7 THEN 0 ELSE @ + 1]
  /\ audioSampleIndex' = IF race.pc = 1 THEN 0 ELSE audioSampleIndex
  /\ audioSequenceNumber' = IF race.pc = 2 THEN 0 ELSE audioSequenceNumber
  /\ adpcmPredicted' = IF race.pc = 3 THEN 0 ELSE adpcmPredicted
  /\ adpcmIndex' = IF race.pc = 4 THEN 0 ELSE adpcmIndex
  /\ audioHighNibble' = IF race.pc = 5 THEN FALSE ELSE audioHighNibble
  /\ audioPacketStartPredicted' = IF race.pc = 6 THEN 0 ELSE audioPacketStartPredicted
  /\ audioPacketStartIndex' = IF race.pc = 7 THEN 0 ELSE audioPacketStartIndex
  /\ UNCHANGED <<audioTxBuffer, audioCurrentByte, serialTx, envVars>>
  /\ UNCHANGED <<ap, reconVars, demuxVars, sessVars, sinkVars, thermVars, loopVars, appVars>>

\* what a call of audioProcessSample adds to the record of the nibbles:
\* the nibble encoded from state s, leaving state t, is the low nibble kept
\* in audioCurrentByte, or the high nibble of the data byte stored at
\* audioSampleIndex
NibbleRecorded(r, s, t) ==
  IF ~audioHighNibble
  THEN [r EXCEPT !.low = [pre |-> s, post |-> t]]
  ELSE LET linked == r.low.post = s
           chain  == IF audioSampleIndex = 0
                     THEN [first |-> r.low.pre, next |-> t, ok |-> linked]
                     ELSE [first |-> r.chain.first, next |-> t,
                           ok |-> r.chain.ok /\ linked /\ r.chain.next = r.low.pre]
       IN [r EXCEPT !.chain = chain,
                    !.tx = IF audioSampleIndex + 1 >= AUDIO_ADPCM_DATA_SIZE
                           THEN Append(@, chain) ELSE @]

\* firmware-v2.ino lines 55-59: the audio task processes the next sample
TaskProcessesSample ==
  /\ nSamples < MaxRaceSamples
  /\ race.pc # 0 => race.during < MaxDuringReset
  /\ audioProcessSample(SampleOf(signal, nSamples))
  /\ LET e == encodeADPCMSample(adpcmPredicted, adpcmIndex, SampleOf(signal, nSamples))
     IN race' = [NibbleRecorded(race, EncoderState(adpcmPredicted, adpcmIndex),
                                EncoderState(e.predicted, e.index))
                   EXCEPT !.during = IF race.pc # 0 THEN @ + 1 ELSE @]
  /\ nSamples' = nSamples + 1
  /\ sinceReset' = sinceReset + 1
  /\ UNCHANGED <<signal, nResets>>
  /\ UNCHANGED <<ap, reconVars, demuxVars, sessVars, sinkVars, thermVars, loopVars, appVars>>

NextRace ==
  \/ TaskProcessesSample
  \/ LoopCallsReset
  \/ ResetStatement

SpecRace == InitEncoder /\ [][NextRace]_vars

\* C33: however the assignments of audioResetState interleave with the
\* calls of audioProcessSample, the header of every packet sent holds the
\* encoder state before the first of the packet's nibbles was encoded, and
\* the 118 nibbles of its 59 data bytes were encoded one after the other
\* from that state.
C33_PacketsConsistentUnderRace ==
  /\ Len(race.tx) = Len(serialTx)
  /\ \A k \in 1..Len(serialTx) :
        /\ GetInt16LE(PacketOf(serialTx[k]), 2) = race.tx[k].first.predicted
        /\ GetUint8(PacketOf(serialTx[k]), 4) = race.tx[k].first.index
        /\ race.tx[k].ok

====
